---- MODULE Spec2Model ----
(***************************************************************************)
(* DocVault: document ingestion, upload de-duplication and tag bookkeeping *)
(* as implemented by the API worker.  Every await of a handler is one      *)
(* step of the task that runs it, so that handlers interleave at exactly   *)
(* the places where the code yields to the event loop or to another worker *)
(* instance.  D1 statements, R2 calls, Vectorize calls and Workers AI      *)
(* calls may fail; a failure is an exception at the awaiting statement.    *)
(***************************************************************************)
EXTENDS Integers, Sequences, FiniteSets, TLC

VARIABLES
    documents,        \* D1 table documents: id -> row
    FILES,            \* R2 bucket: key -> stored content
    VECTORS,          \* Vectorize index: set of vector ids <<document_id, i>>
    document_chunks,  \* D1 table document_chunks: set of ids <<document_id, i>>
    tags,             \* D1 table tags: id -> row
    document_tags,    \* D1 table document_tags: set of <<document_id, tag_id>>
    queue,            \* PROCESSING_QUEUE: document_id -> message
    task,             \* handler invocations in progress: slot -> frame
    resp,             \* the answer of the handler that finished last
    ops,              \* number of handler invocations started so far
    nextDoc,          \* ids handed out so far by generateId for documents
    nextTag,          \* ids handed out so far by randomUUID for tags
    faults,           \* failures of external services injected so far
    runs,             \* document_id -> number of processDocument invocations started
    hasQueue,         \* whether the deployment binds env.PROCESSING_QUEUE
    chat_sessions,    \* D1 table chat_sessions: id -> row
    chat_messages,    \* D1 table chat_messages: the rows in the order of their insertion
    workspace_members,\* D1 table workspace_members: <<user_id, workspace_id>> -> role
    call              \* the last call of a function checked by itself: arguments and result

vars == <<documents, FILES, VECTORS, document_chunks, tags, document_tags,
          queue, task, resp, ops, nextDoc, nextTag, faults, runs, hasQueue,
          chat_sessions, chat_messages, workspace_members, call>>

\* the handlers of documents and tags never touch the chat tables
NoChat == UNCHANGED <<chat_sessions, chat_messages>>

\* no handler but the one that changes a member's role writes the members,
\* and no handler is a call checked by itself
Fixed == UNCHANGED <<workspace_members, call>>

-----------------------------------------------------------------------------
(* Bounds of the model *)

\* handler invocations (requests, tool calls, queue deliveries) in one run
MaxOps == 3
\* failures of D1, R2, Vectorize or Workers AI in one run
MaxFaults == 1
\* fragments the model's stream yields in one chat turn
MaxFragments == 2
\* words of a text handed to chunkText by itself
MaxWords == 9
\* tokens of the targetTokens and overlapTokens handed to chunkText by itself
MaxTokens == 7

-----------------------------------------------------------------------------
(* Sets the model ranges over *)

Tasks == 1..MaxOps
DocIds == 1..MaxOps

Workspaces == {"W1", "W2"}
TagNames == {"invoice", "acme"}

\* (user, workspace) pairs with a row in workspace_members
Members == DOMAIN workspace_members

\* (user, workspace) pairs whose role is owner or editor
Writers == { m \in Members : workspace_members[m] \in {"owner", "editor"} }

\* mime types: the ones the extractor dispatches on, one it does not know but
\* the upload accepts (message/rfc822), one neither knows (application/zip)
PlainMime == "text/plain"
PdfMime == "application/pdf"
PngMime == "image/png"
DocxMime == "application/vnd.openxmlformats-officedocument.wordprocessingml.document"
XlsxMime == "application/vnd.openxmlformats-officedocument.spreadsheetml.sheet"
EmlMime == "message/rfc822"
ZipMime == "application/zip"

\* the files clients send: bytes, declared type, and the number of words that
\* text.split(/\s+/) finds in the text the bytes hold (1 for an empty text)
UploadFiles ==
    { [bytes |-> "b1", type |-> PlainMime, words |-> 800],
      [bytes |-> "b2", type |-> PdfMime,   words |-> 400],
      [bytes |-> "b3", type |-> PngMime,   words |-> 1],
      [bytes |-> "b4", type |-> EmlMime,   words |-> 1],
      [bytes |-> "b5", type |-> DocxMime,  words |-> 1],
      [bytes |-> "b6", type |-> XlsxMime,  words |-> 1],
      [bytes |-> "b7", type |-> ZipMime,   words |-> 1] }

NoFile == [bytes |-> "", type |-> "", words |-> 0]

WordsOfBytes(b) == (CHOOSE f \in UploadFiles : f.bytes = b).words

Min(a, b) == IF a < b THEN a ELSE b

-----------------------------------------------------------------------------
(* Keys, hashes, rows *)

FileKey(d) == [kind |-> "documents", doc |-> d]
TextKeyOf(d) == [kind |-> "text", doc |-> d]
NoKey == [kind |-> "null", doc |-> 0]

\* sha256 of the uploaded bytes, hex encoded; distinct bytes, distinct digests
sha256(b) == <<"sha256", b>>
\* the literal '' that the MCP upload tool binds as content_hash
EmptyHash == <<"", "">>

NoText == [kind |-> "none", words |-> 0]

ChunkIdsOf(S, d) == { c \in S : c[1] = d }

Exists(d) == d \in DOMAIN documents

-----------------------------------------------------------------------------
(* Text extraction and chunking (pure) *)

IsImage(mime) == mime \in {PngMime, "image/jpeg"}

\* extractWithAI: the vision model for images (a description, no description,
\* or a failed call), a fixed placeholder for every other type
extractWithAI(content, mime) ==
    IF IsImage(mime)
    THEN { [kind |-> "vision", words |-> WordsOfBytes(content)],
           [kind |-> "[No text found in image]", words |-> 5],
           [kind |-> "[Could not extract text from <mime>]", words |-> 6] }
    ELSE { [kind |-> "[Document type <mime> - text extraction pending]", words |-> 7] }

\* extractText: the texts the call may return for a blob of this mime type,
\* over the outcomes of the PDF parser and of the vision model
extractText(content, mime) ==
    IF mime = PlainMime
    THEN { [kind |-> "decoded", words |-> WordsOfBytes(content)] }
    ELSE IF mime = PdfMime
    THEN { [kind |-> "pdf", words |-> WordsOfBytes(content)],
           [kind |-> "[PDF content could not be extracted]", words |-> 6] }
         \cup extractWithAI(content, mime)
    ELSE IF IsImage(mime) THEN extractWithAI(content, mime)
    ELSE IF mime = DocxMime THEN extractWithAI(content, mime)
    ELSE IF mime = XlsxMime THEN extractWithAI(content, mime)
    ELSE { [kind |-> "[Unsupported document type: <mime>]", words |-> 4] }

TargetTokens == 512
OverlapTokens == 64

\* Math.floor(tokens * 0.75)
TokensToWords(tokens) == (tokens * 3) \div 4
\* Math.ceil(words / 0.75)
WordsToTokens(words) == (words * 4 + 2) \div 3

\* the length of text.split(/\s+/) for a text of `words` words with single
\* blanks between them: the empty text splits into [""]
SplitLength(words) == IF words = 0 THEN 1 ELSE words

\* a loop that starts the next window where the last one ended
RECURSIVE ChunkLoopFromEnd(_, _, _, _)
ChunkLoopFromEnd(start, len, wordsPerChunk, overlapWords) ==
    IF ~(start < len) THEN <<>>
    ELSE LET end == Min(start + wordsPerChunk, len)
             chunk == [start |-> start, end |-> end,
                       tokenCount |-> WordsToTokens(end - start)]
         IN  IF end >= len
             THEN <<chunk>>
             ELSE <<chunk>> \o ChunkLoopFromEnd(end, len, wordsPerChunk, overlapWords)

RECURSIVE ChunkLoop(_, _, _, _)
ChunkLoop(start, len, wordsPerChunk, overlapWords) ==
    IF ~(start < len) THEN <<>>
    ELSE LET end == Min(start + wordsPerChunk, len)
             chunk == [start |-> start, end |-> end,
                       tokenCount |-> WordsToTokens(end - start)]
             next == end - overlapWords
         IN  IF next >= len - overlapWords
             THEN <<chunk>>
             ELSE <<chunk>> \o ChunkLoop(next, len, wordsPerChunk, overlapWords)

\* chunkText over a text of `words` words: the word range of every chunk
chunkText(words, targetTokens, overlapTokens) ==
    ChunkLoop(0, words, TokensToWords(targetTokens), TokensToWords(overlapTokens))

-----------------------------------------------------------------------------
(* The tagging model's answers *)

TagLists == { <<"invoice">>, <<"invoice", "invoice">> }

LLMResponses ==
    { [kind |-> "not json", tags |-> <<>>], [kind |-> "json object", tags |-> <<>>] }
    \cup { [kind |-> "json array", tags |-> q] : q \in TagLists }

\* JSON.parse in a try, then Array.isArray
ParseTags(response) ==
    IF response.kind = "not json" THEN <<>>
    ELSE IF response.kind = "json array" THEN response.tags
    ELSE <<>>

-----------------------------------------------------------------------------
(* Exceptions *)

ErrNoFile == "File not found in storage"
ErrD1 == "D1_ERROR"
ErrR2 == "R2 put failed"
ErrEmbed == "embedding call failed"
ErrVector == "VECTOR_UPSERT_ERROR"
ErrAI == "AI.run failed"
ErrChunkKey == "UNIQUE constraint failed: document_chunks.id"
ErrDocTagKey == "UNIQUE constraint failed: document_tags.document_id, document_tags.tag_id"
ErrTagKey == "UNIQUE constraint failed: tags.workspace_id, tags.name"
ErrForeignKey == "FOREIGN KEY constraint failed"

-----------------------------------------------------------------------------
(* Frames *)

NoFrame ==
    [op |-> "none", pc |-> "none", user |-> "", ws |-> "", file |-> NoFile,
     doc |-> 0, mime |-> "", text |-> NoText, n |-> 0, i |-> 0, tagq |-> <<>>,
     tagId |-> 0, target |-> 0, textKey |-> NoKey, ids |-> {}, err |-> "",
     inj |-> FALSE, prior |-> "", ins |-> 0,
     req |-> <<>>, matches |-> <<>>, rows |-> <<>>, sess |-> 0, umsg |-> 0,
     content |-> <<>>, events |-> <<>>, amsg |-> 0, gen |-> FALSE,
     history |-> <<>>]

\* the answer, and the workspace and the bytes of the request it answers
NoResp == [op |-> "none", status |-> "", id |-> 0, ws |-> "", bytes |-> ""]

\* what a handler that is in frame `frame` answers
Answer(frame, status, id) ==
    [op |-> frame.op, status |-> status, id |-> id,
     ws |-> frame.ws, bytes |-> frame.file.bytes]

Goto(t, frame) == task' = [task EXCEPT ![t] = frame] /\ UNCHANGED resp

At(t, pc) == task[t].pc = pc

Idle(t) == task[t].op = "none"

\* a new invocation takes the first free slot
Starts(t) ==
    /\ ops < MaxOps
    /\ Idle(t)
    /\ \A u \in Tasks : u < t => ~Idle(u)
    /\ ops' = ops + 1

\* the handler is over: what it answered
Respond(t, status, id) ==
    /\ task' = [task EXCEPT ![t] = NoFrame]
    /\ resp' = Answer(task[t], status, id)

\* an external service fails at the statement being awaited
Fails == faults < MaxFaults /\ faults' = faults + 1

\* the statement throws inside processDocument's try
Throw(t, msg, injected) ==
    Goto(t, [task[t] EXCEPT !.pc = "pd_catch", !.err = msg, !.inj = @ \/ injected])

TagIdOf(ws, name) ==
    { g \in DOMAIN tags : tags[g].workspace_id = ws /\ tags[g].name = name }

-----------------------------------------------------------------------------
(* processDocument *)

\* the frame of a caller as it enters processDocument(data, env)
EnterProcess(frame, d, mime) ==
    [frame EXCEPT !.pc = "pd_start", !.doc = d, !.mime = mime,
                  !.prior = IF Exists(d) THEN documents[d].status ELSE "absent"]

CountRun(d) == runs' = [runs EXCEPT ![d] = @ + 1]

\* the status uploadFile answers after the inline run: 'ready' when
\* processDocument returned, 'error' when it threw
InlineStatus(how) == IF how = "returned" THEN "ready" ELSE "error"

\* queue(batch): message.ack() after processDocument returned, message.retry()
\* in the catch
Settle(how) == IF how = "returned" THEN "acked" ELSE "queued"

\* processDocument is over (it returned or it threw) and its caller goes on
\* without a further await: uploadFile answers, the consumer settles the message
Return(t, how) ==
    IF task[t].op = "queue"
    THEN /\ queue' = [queue EXCEPT ![task[t].doc].state = Settle(how)]
         /\ Respond(t, Settle(how), task[t].doc)
    ELSE /\ UNCHANGED queue
         /\ Respond(t, InlineStatus(how), task[t].doc)

\* UPDATE documents SET status = ? WHERE id = ?
SetStatus(d, st) ==
    IF Exists(d) THEN [documents EXCEPT ![d].status = st] ELSE documents

\* UPDATE documents SET status = 'ready', text_key = ? WHERE id = ?
SetReady(d) ==
    IF Exists(d)
    THEN [documents EXCEPT ![d].status = "ready", ![d].text_key = TextKeyOf(d)]
    ELSE documents

\* a catch block that records the message and forgets the status
SetErrorMessageOnly(d, msg) ==
    IF Exists(d) THEN [documents EXCEPT ![d].error_message = msg] ELSE documents

\* UPDATE documents SET status = 'error', error_message = ? WHERE id = ?
SetError(d, msg) ==
    IF Exists(d)
    THEN [documents EXCEPT ![d].status = "error", ![d].error_message = msg]
    ELSE documents

\* an upsert that writes every chunk of a document under the id of chunk 0
UpsertVectorAtZero(d, i) == VECTORS \cup {<<d, 0>>}

\* VECTORS.upsert([{ id: chunkId, ... }])
UpsertVector(d, i) == VECTORS \cup {<<d, i>>}

\* where the chunk loop goes after chunk i of n is stored
AfterChunk(i, n) == IF i + 1 < n THEN "pd_vec" ELSE "pd_autotag"

PdStart(t) ==
    /\ At(t, "pd_start")
    /\ \/ /\ documents' = SetStatus(task[t].doc, "processing")
          /\ Goto(t, [task[t] EXCEPT !.pc = "pd_get"])
          /\ UNCHANGED faults
       \/ /\ Fails
          /\ Throw(t, ErrD1, TRUE)
          /\ UNCHANGED documents
    /\ UNCHANGED <<FILES, VECTORS, document_chunks, tags, document_tags, queue,
                   ops, nextDoc, nextTag, runs, hasQueue>>

\* env.FILES.get(file_key), then extractText, which reads the body and
\* touches no shared state
PdGet(t) ==
    /\ At(t, "pd_get")
    /\ LET key == FileKey(task[t].doc) IN
       \/ /\ key \notin DOMAIN FILES
          /\ Throw(t, ErrNoFile, FALSE)
          /\ UNCHANGED faults
       \/ /\ key \in DOMAIN FILES
          /\ \E txt \in extractText(FILES[key], task[t].mime) :
                Goto(t, [task[t] EXCEPT !.pc = "pd_put", !.text = txt])
          /\ UNCHANGED faults
       \/ /\ Fails
          /\ Throw(t, ErrR2, TRUE)
    /\ UNCHANGED <<documents, FILES, VECTORS, document_chunks, tags, document_tags,
                   queue, ops, nextDoc, nextTag, runs, hasQueue>>

\* env.FILES.put(textKey, text), then chunkText
PdPut(t) ==
    /\ At(t, "pd_put")
    /\ \/ /\ FILES' = [k \in DOMAIN FILES \cup {TextKeyOf(task[t].doc)} |->
                          IF k = TextKeyOf(task[t].doc) THEN task[t].text.kind
                          ELSE FILES[k]]
          /\ LET n == Len(chunkText(task[t].text.words, TargetTokens, OverlapTokens))
             IN  Goto(t, [task[t] EXCEPT !.pc = IF n > 0 THEN "pd_vec" ELSE "pd_autotag",
                                         !.n = n, !.i = 0])
          /\ UNCHANGED faults
       \/ /\ Fails
          /\ Throw(t, ErrR2, TRUE)
          /\ UNCHANGED FILES
    /\ UNCHANGED <<documents, VECTORS, document_chunks, tags, document_tags, queue,
                   ops, nextDoc, nextTag, runs, hasQueue>>

\* generateEmbedding(chunk.text), then env.VECTORS.upsert
PdVec(t) ==
    /\ At(t, "pd_vec")
    /\ \/ /\ VECTORS' = UpsertVector(task[t].doc, task[t].i)
          /\ Goto(t, [task[t] EXCEPT !.pc = "pd_chunk"])
          /\ UNCHANGED faults
       \/ /\ Fails
          /\ \E msg \in {ErrEmbed, ErrVector} : Throw(t, msg, TRUE)
          /\ UNCHANGED VECTORS
    /\ UNCHANGED <<documents, FILES, document_chunks, tags, document_tags, queue,
                   ops, nextDoc, nextTag, runs, hasQueue>>

\* INSERT INTO document_chunks (id, document_id, ...): id is the primary key,
\* document_id references documents(id)
PdChunk(t) ==
    /\ At(t, "pd_chunk")
    /\ LET d == task[t].doc
           i == task[t].i
       IN  \/ /\ <<d, i>> \in document_chunks
              /\ Throw(t, ErrChunkKey, FALSE)
              /\ UNCHANGED <<document_chunks, faults>>
           \/ /\ <<d, i>> \notin document_chunks
              /\ ~Exists(d)
              /\ Throw(t, ErrForeignKey, FALSE)
              /\ UNCHANGED <<document_chunks, faults>>
           \/ /\ <<d, i>> \notin document_chunks
              /\ Exists(d)
              /\ document_chunks' = document_chunks \cup {<<d, i>>}
              /\ Goto(t, [task[t] EXCEPT !.pc = AfterChunk(i, task[t].n), !.i = i + 1])
              /\ UNCHANGED faults
           \/ /\ Fails
              /\ Throw(t, ErrD1, TRUE)
              /\ UNCHANGED document_chunks
    /\ UNCHANGED <<documents, FILES, VECTORS, tags, document_tags, queue,
                   ops, nextDoc, nextTag, runs, hasQueue>>

\* autoTag: SELECT name, category FROM tags WHERE workspace_id = ? ... LIMIT 50;
\* the names go into the prompt only
PdAutoTag(t) ==
    /\ At(t, "pd_autotag")
    /\ \/ /\ Goto(t, [task[t] EXCEPT !.pc = "pd_infer"])
          /\ UNCHANGED faults
       \/ /\ Fails
          /\ Throw(t, ErrD1, TRUE)
    /\ UNCHANGED <<documents, FILES, VECTORS, document_chunks, tags, document_tags,
                   queue, ops, nextDoc, nextTag, runs, hasQueue>>

\* autoTag: env.AI.run(llama) outside the try, JSON.parse inside it; then the
\* head of the loop over the tags
PdInfer(t) ==
    /\ At(t, "pd_infer")
    /\ \/ /\ \E response \in LLMResponses :
                LET q == ParseTags(response) IN
                Goto(t, [task[t] EXCEPT !.pc = IF q = <<>> THEN "pd_ready" ELSE "pd_findtag",
                                        !.tagq = q])
          /\ UNCHANGED faults
       \/ /\ Fails
          /\ Throw(t, ErrAI, TRUE)
    /\ UNCHANGED <<documents, FILES, VECTORS, document_chunks, tags, document_tags,
                   queue, ops, nextDoc, nextTag, runs, hasQueue>>

\* SELECT id FROM tags WHERE workspace_id = ? AND name = ?
PdFindTag(t) ==
    /\ At(t, "pd_findtag")
    /\ LET found == TagIdOf(task[t].ws, Head(task[t].tagq)) IN
       \/ /\ found # {}
          /\ \E g \in found : Goto(t, [task[t] EXCEPT !.pc = "pd_doctag", !.tagId = g])
          /\ UNCHANGED faults
       \/ /\ found = {}
          /\ Goto(t, [task[t] EXCEPT !.pc = "pd_mktag"])
          /\ UNCHANGED faults
       \/ /\ Fails
          /\ Throw(t, ErrD1, TRUE)
    /\ UNCHANGED <<documents, FILES, VECTORS, document_chunks, tags, document_tags,
                   queue, ops, nextDoc, nextTag, runs, hasQueue>>

\* INSERT INTO tags (..., usage_count, ...) VALUES (..., 0, ...): UNIQUE (workspace_id, name)
PdMakeTag(t) ==
    /\ At(t, "pd_mktag")
    /\ LET ws == task[t].ws
           name == Head(task[t].tagq)
           g == nextTag + 1
       IN  \/ /\ TagIdOf(ws, name) # {}
              /\ Throw(t, ErrTagKey, FALSE)
              /\ UNCHANGED <<tags, nextTag, faults>>
           \/ /\ TagIdOf(ws, name) = {}
              /\ tags' = [k \in DOMAIN tags \cup {g} |->
                             IF k = g
                             THEN [workspace_id |-> ws, name |-> name, usage_count |-> 0]
                             ELSE tags[k]]
              /\ nextTag' = g
              /\ Goto(t, [task[t] EXCEPT !.pc = "pd_doctag", !.tagId = g])
              /\ UNCHANGED faults
           \/ /\ Fails
              /\ Throw(t, ErrD1, TRUE)
              /\ UNCHANGED <<tags, nextTag>>
    /\ UNCHANGED <<documents, FILES, VECTORS, document_chunks, document_tags, queue,
                   ops, nextDoc, runs, hasQueue>>

\* INSERT INTO document_tags (document_id, tag_id, source, ...): the pair is the
\* primary key, both columns are foreign keys; usage_count is not touched
PdDocTag(t) ==
    /\ At(t, "pd_doctag")
    /\ LET d == task[t].doc
           g == task[t].tagId
           rest == Tail(task[t].tagq)
       IN  \/ /\ <<d, g>> \in document_tags
              /\ Throw(t, ErrDocTagKey, FALSE)
              /\ UNCHANGED <<document_tags, faults>>
           \/ /\ <<d, g>> \notin document_tags
              /\ ~(Exists(d) /\ g \in DOMAIN tags)
              /\ Throw(t, ErrForeignKey, FALSE)
              /\ UNCHANGED <<document_tags, faults>>
           \/ /\ <<d, g>> \notin document_tags
              /\ Exists(d) /\ g \in DOMAIN tags
              /\ document_tags' = document_tags \cup {<<d, g>>}
              /\ Goto(t, [task[t] EXCEPT !.pc = IF rest = <<>> THEN "pd_ready" ELSE "pd_findtag",
                                         !.tagq = rest, !.ins = @ + 1])
              /\ UNCHANGED faults
           \/ /\ Fails
              /\ Throw(t, ErrD1, TRUE)
              /\ UNCHANGED document_tags
    /\ UNCHANGED <<documents, FILES, VECTORS, document_chunks, tags, queue,
                   ops, nextDoc, nextTag, runs, hasQueue>>

PdReady(t) ==
    /\ At(t, "pd_ready")
    /\ \/ /\ documents' = SetReady(task[t].doc)
          /\ Return(t, "returned")
          /\ UNCHANGED faults
       \/ /\ Fails
          /\ Throw(t, ErrD1, TRUE)
          /\ UNCHANGED <<documents, queue>>
    /\ UNCHANGED <<FILES, VECTORS, document_chunks, tags, document_tags,
                   ops, nextDoc, nextTag, runs, hasQueue>>

\* the catch block: its own UPDATE is not guarded, a failure of it leaves
\* processDocument by exception
PdCatch(t) ==
    /\ At(t, "pd_catch")
    /\ \/ /\ documents' = SetError(task[t].doc, task[t].err)
          /\ Return(t, "returned")
          /\ UNCHANGED faults
       \/ /\ Fails
          /\ Return(t, "threw")
          /\ UNCHANGED documents
    /\ UNCHANGED <<FILES, VECTORS, document_chunks, tags, document_tags,
                   ops, nextDoc, nextTag, runs, hasQueue>>

processDocument(t) ==
    \/ PdStart(t) \/ PdGet(t) \/ PdPut(t) \/ PdVec(t) \/ PdChunk(t) \/ PdAutoTag(t)
    \/ PdInfer(t)
    \/ PdFindTag(t) \/ PdMakeTag(t) \/ PdDocTag(t) \/ PdReady(t) \/ PdCatch(t)

-----------------------------------------------------------------------------
(* Upload over HTTP: handleUpload with one file, uploadFile *)

AllowedTypes ==
    {PdfMime, DocxMime, XlsxMime, "image/jpeg", PngMime, PlainMime, EmlMime}

\* a duplicate check that forgets the workspace
DuplicatesAnyWorkspace(ws, hash) ==
    { d \in DOMAIN documents : documents[d].content_hash = hash }

\* SELECT id, title FROM documents WHERE workspace_id = ? AND content_hash = ?
Duplicates(ws, hash) ==
    { d \in DOMAIN documents :
        documents[d].workspace_id = ws /\ documents[d].content_hash = hash }

NewRow(ws, user, hash, mime, d) ==
    [workspace_id |-> ws, user_id |-> user, file_key |-> FileKey(d),
     text_key |-> NoKey, content_hash |-> hash, mime_type |-> mime,
     status |-> "pending", error_message |-> "", title |-> "file.name"]

InsertDocument(d, row) ==
    [k \in DOMAIN documents \cup {d} |-> IF k = d THEN row ELSE documents[k]]

PutBlob(key, content) ==
    [k \in DOMAIN FILES \cup {key} |-> IF k = key THEN content ELSE FILES[k]]

\* PROCESSING_QUEUE.send(message)
Send(d, ws, mime) ==
    [k \in DOMAIN queue \cup {d} |->
        IF k = d THEN [workspace_id |-> ws, mime_type |-> mime, state |-> "queued"]
        ELSE queue[k]]

\* POST /upload by a user with a writable workspace; uploadFile hashes the
\* bytes, runs the duplicate check, then the mime type check
UploadStart(t, user, ws, file) ==
    /\ Starts(t)
    /\ <<user, ws>> \in Writers
    /\ LET dups == Duplicates(ws, sha256(file.bytes))
           frame == [NoFrame EXCEPT !.op = "upload", !.user = user, !.ws = ws,
                                    !.file = file]
       IN
       \/ /\ dups # {}
          /\ \E d \in dups :
                /\ task' = task
                /\ resp' = Answer(frame, "duplicate", d)
          /\ UNCHANGED <<nextDoc, faults>>
       \/ /\ dups = {}
          /\ file.type \notin AllowedTypes
          /\ task' = task
          /\ resp' = Answer(frame, "Upload failed", 0)
          /\ UNCHANGED <<nextDoc, faults>>
       \/ /\ dups = {}
          /\ file.type \in AllowedTypes
          /\ nextDoc' = nextDoc + 1
          /\ Goto(t, [frame EXCEPT !.pc = "up_put", !.doc = nextDoc + 1,
                                   !.mime = file.type])
          /\ UNCHANGED faults
       \/ /\ Fails
          /\ task' = task
          /\ resp' = Answer(frame, "Upload failed", 0)
          /\ UNCHANGED nextDoc
    /\ UNCHANGED <<documents, FILES, VECTORS, document_chunks, tags, document_tags,
                   queue, nextTag, runs, hasQueue>>

\* env.FILES.put(fileKey, content)
UpPut(t) ==
    /\ At(t, "up_put")
    /\ \/ /\ FILES' = PutBlob(FileKey(task[t].doc), task[t].file.bytes)
          /\ Goto(t, [task[t] EXCEPT !.pc = "up_insert"])
          /\ UNCHANGED faults
       \/ /\ Fails
          /\ Respond(t, "Upload failed", 0)
          /\ UNCHANGED FILES
    /\ UNCHANGED <<documents, VECTORS, document_chunks, tags, document_tags, queue,
                   ops, nextDoc, nextTag, runs, hasQueue>>

\* INSERT INTO documents (...) VALUES (..., 'pending', ...)
UpInsert(t) ==
    /\ At(t, "up_insert")
    /\ \/ /\ documents' = InsertDocument(task[t].doc,
                              NewRow(task[t].ws, task[t].user,
                                     sha256(task[t].file.bytes), task[t].mime, task[t].doc))
          /\ Goto(t, [task[t] EXCEPT !.pc = "up_dispatch"])
          /\ UNCHANGED faults
       \/ /\ Fails
          /\ Respond(t, "Upload failed", 0)
          /\ UNCHANGED documents
    /\ UNCHANGED <<FILES, VECTORS, document_chunks, tags, document_tags, queue,
                   ops, nextDoc, nextTag, runs, hasQueue>>

\* if (env.PROCESSING_QUEUE) send and answer 'pending', else processDocument inline
UpDispatch(t) ==
    /\ At(t, "up_dispatch")
    /\ \/ /\ hasQueue
          /\ queue' = Send(task[t].doc, task[t].ws, task[t].mime)
          /\ Respond(t, "pending", task[t].doc)
          /\ UNCHANGED <<faults, runs>>
       \/ /\ hasQueue
          /\ Fails
          /\ Respond(t, "Upload failed", 0)
          /\ UNCHANGED <<queue, runs>>
       \/ /\ ~hasQueue
          /\ Goto(t, EnterProcess(task[t], task[t].doc, task[t].mime))
          /\ CountRun(task[t].doc)
          /\ UNCHANGED <<queue, faults>>
    /\ UNCHANGED <<documents, FILES, VECTORS, document_chunks, tags, document_tags,
                   ops, nextDoc, nextTag, hasQueue>>

uploadFile(t) == UpPut(t) \/ UpInsert(t) \/ UpDispatch(t)

-----------------------------------------------------------------------------
(* Upload through the MCP tool docvault_upload *)

\* the tool call of an API key of a non-viewer; docId = crypto.randomUUID()
McpUploadStart(t, user, ws, file) ==
    /\ Starts(t)
    /\ <<user, ws>> \in Writers
    /\ nextDoc' = nextDoc + 1
    /\ Goto(t, [NoFrame EXCEPT !.op = "mcp_upload", !.pc = "mcp_put", !.user = user,
                               !.ws = ws, !.file = file, !.doc = nextDoc + 1,
                               !.mime = file.type])
    /\ UNCHANGED <<documents, FILES, VECTORS, document_chunks, tags, document_tags,
                   queue, nextTag, faults, runs, hasQueue>>

McpPut(t) ==
    /\ At(t, "mcp_put")
    /\ \/ /\ FILES' = PutBlob(FileKey(task[t].doc), task[t].file.bytes)
          /\ Goto(t, [task[t] EXCEPT !.pc = "mcp_insert"])
          /\ UNCHANGED faults
       \/ /\ Fails
          /\ Respond(t, "isError", 0)
          /\ UNCHANGED FILES
    /\ UNCHANGED <<documents, VECTORS, document_chunks, tags, document_tags, queue,
                   ops, nextDoc, nextTag, runs, hasQueue>>

\* INSERT INTO documents with content_hash bound to ''
McpInsert(t) ==
    /\ At(t, "mcp_insert")
    /\ \/ /\ documents' = InsertDocument(task[t].doc,
                              NewRow(task[t].ws, task[t].user, EmptyHash,
                                     task[t].mime, task[t].doc))
          /\ Goto(t, [task[t] EXCEPT !.pc = "mcp_send"])
          /\ UNCHANGED faults
       \/ /\ Fails
          /\ Respond(t, "isError", 0)
          /\ UNCHANGED documents
    /\ UNCHANGED <<FILES, VECTORS, document_chunks, tags, document_tags, queue,
                   ops, nextDoc, nextTag, runs, hasQueue>>

\* env.PROCESSING_QUEUE.send with no check of the binding
McpSend(t) ==
    /\ At(t, "mcp_send")
    /\ \/ /\ hasQueue
          /\ queue' = Send(task[t].doc, task[t].ws, task[t].mime)
          /\ Respond(t, "pending", task[t].doc)
          /\ UNCHANGED faults
       \/ /\ hasQueue
          /\ Fails
          /\ Respond(t, "isError", 0)
          /\ UNCHANGED queue
       \/ /\ ~hasQueue
          /\ Respond(t, "isError", 0)
          /\ UNCHANGED <<queue, faults>>
    /\ UNCHANGED <<documents, FILES, VECTORS, document_chunks, tags, document_tags,
                   ops, nextDoc, nextTag, runs, hasQueue>>

toolUpload(t) == McpPut(t) \/ McpInsert(t) \/ McpSend(t)

-----------------------------------------------------------------------------
(* The queue consumer *)

\* the queue hands a message to queue(batch): a first delivery, a retry, or a
\* repeated delivery of a message handed out before (delivery is at least once)
QueueDeliver(t, d) ==
    /\ Starts(t)
    /\ d \in DOMAIN queue
    /\ queue' = [queue EXCEPT ![d].state = "inflight"]
    /\ Goto(t, EnterProcess([NoFrame EXCEPT !.op = "queue", !.ws = queue[d].workspace_id],
                            d, queue[d].mime_type))
    /\ CountRun(d)
    /\ UNCHANGED <<documents, FILES, VECTORS, document_chunks, tags, document_tags,
                   nextDoc, nextTag, faults, hasQueue>>

-----------------------------------------------------------------------------
(* Tags of a document: the helpers of the tag routes and the MCP tools *)

\* rows of document_tags that reference tag g, rows that reference document d
RowsOfTag(S, g) == { p \in S : p[2] = g }
RowsOfDoc(S, d) == { p \in S : p[1] = d }

Dec(n) == IF n > 0 THEN n - 1 ELSE 0

\* UPDATE tags SET usage_count = usage_count + 1 WHERE id = ?
IncrementUsage(g) ==
    IF g \in DOMAIN tags THEN [tags EXCEPT ![g].usage_count = @ + 1] ELSE tags

\* UPDATE tags SET usage_count = MAX(0, usage_count - 1) WHERE id = ?
DecrementUsage(g) ==
    IF g \in DOMAIN tags THEN [tags EXCEPT ![g].usage_count = Dec(@)] ELSE tags

\* UPDATE tags SET usage_count = ? WHERE id = ?
SetUsage(g, n) ==
    IF g \in DOMAIN tags THEN [tags EXCEPT ![g].usage_count = n] ELSE tags

InsertTag(g, ws, name) ==
    [k \in DOMAIN tags \cup {g} |->
        IF k = g THEN [workspace_id |-> ws, name |-> name, usage_count |-> 0]
        ELSE tags[k]]

\* DELETE FROM tags WHERE id = ?
DeleteTag(g) == [k \in DOMAIN tags \ {g} |-> tags[k]]

\* what every step of the operations below leaves alone
UnchangedStores == UNCHANGED <<FILES, VECTORS, document_chunks, queue>>
UnchangedCounters == UNCHANGED <<ops, nextDoc, runs, hasQueue>>

\* the handler fails at the awaited statement and answers an error
Abort(t) == Fails /\ Respond(t, "failed", task[t].doc)

\* addTagsToDocument(documentId, [tagId], source, env), first statement:
\* SELECT 1 FROM document_tags WHERE document_id = ? AND tag_id = ?
AddTagsStart(t, d, g) ==
    /\ Starts(t)
    /\ LET frame == [NoFrame EXCEPT !.op = "addTags", !.doc = d, !.tagId = g] IN
       \/ /\ <<d, g>> \in document_tags
          /\ task' = task
          /\ resp' = Answer(frame, "done", d)
       \/ /\ <<d, g>> \notin document_tags
          /\ Goto(t, [frame EXCEPT !.pc = "at_insert"])
    /\ UNCHANGED <<documents, tags, document_tags, nextTag, faults>>
    /\ UNCHANGED <<FILES, VECTORS, document_chunks, queue, nextDoc, runs, hasQueue>>

\* INSERT INTO document_tags (document_id, tag_id, source, created_at)
AtInsert(t) ==
    /\ At(t, "at_insert")
    /\ LET d == task[t].doc
           g == task[t].tagId
       IN  \/ /\ \/ <<d, g>> \in document_tags
                 \/ ~(Exists(d) /\ g \in DOMAIN tags)
              /\ Respond(t, "failed", d)
              /\ UNCHANGED <<document_tags, faults>>
           \/ /\ <<d, g>> \notin document_tags
              /\ Exists(d) /\ g \in DOMAIN tags
              /\ document_tags' = document_tags \cup {<<d, g>>}
              /\ Goto(t, [task[t] EXCEPT !.pc = "at_inc"])
              /\ UNCHANGED faults
           \/ /\ Abort(t)
              /\ UNCHANGED document_tags
    /\ UNCHANGED <<documents, tags, nextTag>>
    /\ UnchangedStores /\ UnchangedCounters

AtIncrement(t) ==
    /\ At(t, "at_inc")
    /\ \/ /\ tags' = IncrementUsage(task[t].tagId)
          /\ Respond(t, "done", task[t].doc)
          /\ UNCHANGED faults
       \/ /\ Abort(t)
          /\ UNCHANGED tags
    /\ UNCHANGED <<documents, document_tags, nextTag>>
    /\ UnchangedStores /\ UnchangedCounters

addTagsToDocument(t) == AtInsert(t) \/ AtIncrement(t)

\* removeTagsFromDocument(documentId, [tagId], env), first statement:
\* DELETE FROM document_tags WHERE document_id = ? AND tag_id = ?
RemoveTagsStart(t, d, g) ==
    /\ Starts(t)
    /\ document_tags' = document_tags \ {<<d, g>>}
    /\ Goto(t, [NoFrame EXCEPT !.op = "removeTags", !.pc = "rt_dec", !.doc = d,
                               !.tagId = g])
    /\ UNCHANGED <<documents, tags, nextTag, faults>>
    /\ UNCHANGED <<FILES, VECTORS, document_chunks, queue, nextDoc, runs, hasQueue>>

\* the decrement follows whether or not the DELETE removed a row
RtDecrement(t) ==
    /\ At(t, "rt_dec")
    /\ \/ /\ tags' = DecrementUsage(task[t].tagId)
          /\ Respond(t, "done", task[t].doc)
          /\ UNCHANGED faults
       \/ /\ Abort(t)
          /\ UNCHANGED tags
    /\ UNCHANGED <<documents, document_tags, nextTag>>
    /\ UnchangedStores /\ UnchangedCounters

removeTagsFromDocument(t) == RtDecrement(t)

\* docvault_add_tags with one tag name, by a key of a non-viewer; first statement:
\* SELECT id FROM documents WHERE id = ? AND workspace_id = ?
ToolAddTagsStart(t, user, ws, d, name) ==
    /\ Starts(t)
    /\ <<user, ws>> \in Writers
    /\ LET frame == [NoFrame EXCEPT !.op = "toolAddTags", !.user = user, !.ws = ws,
                                    !.doc = d, !.tagq = <<name>>]
       IN  IF Exists(d) /\ documents[d].workspace_id = ws
           THEN Goto(t, [frame EXCEPT !.pc = "ta_find"])
           ELSE /\ task' = task
                /\ resp' = Answer(frame, "Document not found", d)
    /\ UNCHANGED <<documents, tags, document_tags, nextTag, faults>>
    /\ UNCHANGED <<FILES, VECTORS, document_chunks, queue, nextDoc, runs, hasQueue>>

\* SELECT id FROM tags WHERE workspace_id = ? AND name = ?
TaFind(t) ==
    /\ At(t, "ta_find")
    /\ LET found == TagIdOf(task[t].ws, Head(task[t].tagq)) IN
       \/ /\ found # {}
          /\ \E g \in found : Goto(t, [task[t] EXCEPT !.pc = "ta_check", !.tagId = g])
          /\ UNCHANGED faults
       \/ /\ found = {}
          /\ Goto(t, [task[t] EXCEPT !.pc = "ta_mktag"])
          /\ UNCHANGED faults
       \/ Abort(t)
    /\ UNCHANGED <<documents, tags, document_tags, nextTag>>
    /\ UnchangedStores /\ UnchangedCounters

\* INSERT INTO tags (id, workspace_id, name, usage_count, created_at)
TaMakeTag(t) ==
    /\ At(t, "ta_mktag")
    /\ LET ws == task[t].ws
           name == Head(task[t].tagq)
           g == nextTag + 1
       IN  \/ /\ TagIdOf(ws, name) # {}
              /\ Respond(t, "failed", task[t].doc)
              /\ UNCHANGED <<tags, nextTag, faults>>
           \/ /\ TagIdOf(ws, name) = {}
              /\ tags' = InsertTag(g, ws, name)
              /\ nextTag' = g
              /\ Goto(t, [task[t] EXCEPT !.pc = "ta_check", !.tagId = g])
              /\ UNCHANGED faults
           \/ /\ Abort(t)
              /\ UNCHANGED <<tags, nextTag>>
    /\ UNCHANGED <<documents, document_tags>>
    /\ UnchangedStores /\ UnchangedCounters

\* SELECT 1 FROM document_tags WHERE document_id = ? AND tag_id = ?
TaCheck(t) ==
    /\ At(t, "ta_check")
    /\ \/ /\ <<task[t].doc, task[t].tagId>> \in document_tags
          /\ Respond(t, "All tags already present on document", task[t].doc)
          /\ UNCHANGED faults
       \/ /\ <<task[t].doc, task[t].tagId>> \notin document_tags
          /\ Goto(t, [task[t] EXCEPT !.pc = "ta_insert"])
          /\ UNCHANGED faults
       \/ Abort(t)
    /\ UNCHANGED <<documents, tags, document_tags, nextTag>>
    /\ UnchangedStores /\ UnchangedCounters

\* INSERT INTO document_tags (document_id, tag_id, source, created_at)
TaInsert(t) ==
    /\ At(t, "ta_insert")
    /\ LET d == task[t].doc
           g == task[t].tagId
       IN  \/ /\ \/ <<d, g>> \in document_tags
                 \/ ~(Exists(d) /\ g \in DOMAIN tags)
              /\ Respond(t, "failed", d)
              /\ UNCHANGED <<document_tags, faults>>
           \/ /\ <<d, g>> \notin document_tags
              /\ Exists(d) /\ g \in DOMAIN tags
              /\ document_tags' = document_tags \cup {<<d, g>>}
              /\ Goto(t, [task[t] EXCEPT !.pc = "ta_inc"])
              /\ UNCHANGED faults
           \/ /\ Abort(t)
              /\ UNCHANGED document_tags
    /\ UNCHANGED <<documents, tags, nextTag>>
    /\ UnchangedStores /\ UnchangedCounters

TaIncrement(t) ==
    /\ At(t, "ta_inc")
    /\ \/ /\ tags' = IncrementUsage(task[t].tagId)
          /\ Respond(t, "Added tags", task[t].doc)
          /\ UNCHANGED faults
       \/ /\ Abort(t)
          /\ UNCHANGED tags
    /\ UNCHANGED <<documents, document_tags, nextTag>>
    /\ UnchangedStores /\ UnchangedCounters

toolAddTags(t) ==
    TaFind(t) \/ TaMakeTag(t) \/ TaCheck(t) \/ TaInsert(t) \/ TaIncrement(t)

\* docvault_remove_tags with one tag name
ToolRemoveTagsStart(t, user, ws, d, name) ==
    /\ Starts(t)
    /\ <<user, ws>> \in Writers
    /\ LET frame == [NoFrame EXCEPT !.op = "toolRemoveTags", !.user = user, !.ws = ws,
                                    !.doc = d, !.tagq = <<name>>]
       IN  IF Exists(d) /\ documents[d].workspace_id = ws
           THEN Goto(t, [frame EXCEPT !.pc = "tr_find"])
           ELSE /\ task' = task
                /\ resp' = Answer(frame, "Document not found", d)
    /\ UNCHANGED <<documents, tags, document_tags, nextTag, faults>>
    /\ UNCHANGED <<FILES, VECTORS, document_chunks, queue, nextDoc, runs, hasQueue>>

TrFind(t) ==
    /\ At(t, "tr_find")
    /\ LET found == TagIdOf(task[t].ws, Head(task[t].tagq)) IN
       \/ /\ found # {}
          /\ \E g \in found : Goto(t, [task[t] EXCEPT !.pc = "tr_delete", !.tagId = g])
          /\ UNCHANGED faults
       \/ /\ found = {}
          /\ Respond(t, "No matching tags found on document", task[t].doc)
          /\ UNCHANGED faults
       \/ Abort(t)
    /\ UNCHANGED <<documents, tags, document_tags, nextTag>>
    /\ UnchangedStores /\ UnchangedCounters

\* DELETE FROM document_tags WHERE document_id = ? AND tag_id = ?, then
\* if (result.meta.changes > 0)
TrDelete(t) ==
    /\ At(t, "tr_delete")
    /\ LET p == <<task[t].doc, task[t].tagId>> IN
       \/ /\ p \in document_tags
          /\ document_tags' = document_tags \ {p}
          /\ Goto(t, [task[t] EXCEPT !.pc = "tr_dec"])
          /\ UNCHANGED faults
       \/ /\ p \notin document_tags
          /\ Respond(t, "No matching tags found on document", task[t].doc)
          /\ UNCHANGED <<document_tags, faults>>
       \/ /\ Abort(t)
          /\ UNCHANGED document_tags
    /\ UNCHANGED <<documents, tags, nextTag>>
    /\ UnchangedStores /\ UnchangedCounters

TrDecrement(t) ==
    /\ At(t, "tr_dec")
    /\ \/ /\ tags' = DecrementUsage(task[t].tagId)
          /\ Respond(t, "Removed tags", task[t].doc)
          /\ UNCHANGED faults
       \/ /\ Abort(t)
          /\ UNCHANGED tags
    /\ UNCHANGED <<documents, document_tags, nextTag>>
    /\ UnchangedStores /\ UnchangedCounters

toolRemoveTags(t) == TrFind(t) \/ TrDelete(t) \/ TrDecrement(t)

-----------------------------------------------------------------------------
(* Tag routes: DELETE /tags/:id and POST /tags/merge *)

\* the tag joined with the caller's membership; a viewer is refused
TagDeleteStart(t, user, g) ==
    /\ Starts(t)
    /\ LET frame == [NoFrame EXCEPT !.op = "tagDelete", !.user = user, !.tagId = g] IN
       IF g \in DOMAIN tags /\ <<user, tags[g].workspace_id>> \in Members
       THEN IF <<user, tags[g].workspace_id>> \in Writers
            THEN Goto(t, [frame EXCEPT !.pc = "td_rows", !.ws = tags[g].workspace_id])
            ELSE /\ task' = task
                 /\ resp' = Answer(frame, "Insufficient permissions", 0)
       ELSE /\ task' = task
            /\ resp' = Answer(frame, "Tag not found", 0)
    /\ UNCHANGED <<documents, tags, document_tags, nextTag, faults>>
    /\ UNCHANGED <<FILES, VECTORS, document_chunks, queue, nextDoc, runs, hasQueue>>

\* DELETE FROM document_tags WHERE tag_id = ?
TdRows(t) ==
    /\ At(t, "td_rows")
    /\ \/ /\ document_tags' = document_tags \ RowsOfTag(document_tags, task[t].tagId)
          /\ Goto(t, [task[t] EXCEPT !.pc = "td_tag"])
          /\ UNCHANGED faults
       \/ /\ Abort(t)
          /\ UNCHANGED document_tags
    /\ UNCHANGED <<documents, tags, nextTag>>
    /\ UnchangedStores /\ UnchangedCounters

\* DELETE FROM tags WHERE id = ?: refused while a document_tags row references it
TdTag(t) ==
    /\ At(t, "td_tag")
    /\ LET g == task[t].tagId IN
       \/ /\ RowsOfTag(document_tags, g) # {}
          /\ Respond(t, "failed", 0)
          /\ UNCHANGED <<tags, faults>>
       \/ /\ RowsOfTag(document_tags, g) = {}
          /\ tags' = DeleteTag(g)
          /\ Respond(t, "Tag deleted", 0)
          /\ UNCHANGED faults
       \/ /\ Abort(t)
          /\ UNCHANGED tags
    /\ UNCHANGED <<documents, document_tags, nextTag>>
    /\ UnchangedStores /\ UnchangedCounters

tagDelete(t) == TdRows(t) \/ TdTag(t)

\* workspace owners, the only role that may merge tags
Owners == { m \in Members : workspace_members[m] = "owner" }

\* POST /tags/merge with one source tag; the target joined with the caller's
\* membership, then the loop head: a source equal to the target is skipped
MergeStart(t, user, source, target) ==
    /\ Starts(t)
    /\ LET frame == [NoFrame EXCEPT !.op = "merge", !.user = user, !.tagId = source,
                                    !.target = target]
       IN  IF target \in DOMAIN tags /\ <<user, tags[target].workspace_id>> \in Owners
           THEN Goto(t, [frame EXCEPT !.ws = tags[target].workspace_id,
                                      !.pc = IF source = target THEN "mg_count"
                                             ELSE "mg_source"])
           ELSE /\ task' = task
                /\ resp' = Answer(frame, "Insufficient permissions", 0)
    /\ UNCHANGED <<documents, tags, document_tags, nextTag, faults>>
    /\ UNCHANGED <<FILES, VECTORS, document_chunks, queue, nextDoc, runs, hasQueue>>

\* SELECT id FROM tags WHERE id = ? AND workspace_id = ?
MgSource(t) ==
    /\ At(t, "mg_source")
    /\ LET s == task[t].tagId IN
       \/ /\ Goto(t, [task[t] EXCEPT !.pc =
                        IF s \in DOMAIN tags /\ tags[s].workspace_id = task[t].ws
                        THEN "mg_move" ELSE "mg_count"])
          /\ UNCHANGED faults
       \/ Abort(t)
    /\ UNCHANGED <<documents, tags, document_tags, nextTag>>
    /\ UnchangedStores /\ UnchangedCounters

\* UPDATE OR IGNORE document_tags SET tag_id = target WHERE tag_id = source:
\* a row whose document already carries the target is left as it is
MoveRows(source, target) ==
    LET moved == { p \in RowsOfTag(document_tags, source) :
                     <<p[1], target>> \notin document_tags }
    IN  (document_tags \ moved) \cup { <<p[1], target>> : p \in moved }

MgMove(t) ==
    /\ At(t, "mg_move")
    /\ LET s == task[t].tagId
           g == task[t].target
       IN  \/ /\ g \in DOMAIN tags \/ MoveRows(s, g) = document_tags
              /\ document_tags' = MoveRows(s, g)
              /\ Goto(t, [task[t] EXCEPT !.pc = "mg_rest"])
              /\ UNCHANGED faults
           \/ /\ g \notin DOMAIN tags /\ MoveRows(s, g) # document_tags
              /\ Respond(t, "failed", 0)
              /\ UNCHANGED <<document_tags, faults>>
           \/ /\ Abort(t)
              /\ UNCHANGED document_tags
    /\ UNCHANGED <<documents, tags, nextTag>>
    /\ UnchangedStores /\ UnchangedCounters

\* DELETE FROM document_tags WHERE tag_id = source
MgRest(t) ==
    /\ At(t, "mg_rest")
    /\ \/ /\ document_tags' = document_tags \ RowsOfTag(document_tags, task[t].tagId)
          /\ Goto(t, [task[t] EXCEPT !.pc = "mg_tag"])
          /\ UNCHANGED faults
       \/ /\ Abort(t)
          /\ UNCHANGED document_tags
    /\ UNCHANGED <<documents, tags, nextTag>>
    /\ UnchangedStores /\ UnchangedCounters

\* DELETE FROM tags WHERE id = source
MgTag(t) ==
    /\ At(t, "mg_tag")
    /\ LET s == task[t].tagId IN
       \/ /\ RowsOfTag(document_tags, s) # {}
          /\ Respond(t, "failed", 0)
          /\ UNCHANGED <<tags, faults>>
       \/ /\ RowsOfTag(document_tags, s) = {}
          /\ tags' = DeleteTag(s)
          /\ Goto(t, [task[t] EXCEPT !.pc = "mg_count"])
          /\ UNCHANGED faults
       \/ /\ Abort(t)
          /\ UNCHANGED tags
    /\ UNCHANGED <<documents, document_tags, nextTag>>
    /\ UnchangedStores /\ UnchangedCounters

\* SELECT COUNT(*) FROM document_tags WHERE tag_id = target
MgCount(t) ==
    /\ At(t, "mg_count")
    /\ \/ /\ Goto(t, [task[t] EXCEPT !.pc = "mg_usage",
                        !.n = Cardinality(RowsOfTag(document_tags, task[t].target))])
          /\ UNCHANGED faults
       \/ Abort(t)
    /\ UNCHANGED <<documents, tags, document_tags, nextTag>>
    /\ UnchangedStores /\ UnchangedCounters

\* UPDATE tags SET usage_count = ? WHERE id = target
MgUsage(t) ==
    /\ At(t, "mg_usage")
    /\ \/ /\ tags' = SetUsage(task[t].target, task[t].n)
          /\ Respond(t, "Tags merged", 0)
          /\ UNCHANGED faults
       \/ /\ Abort(t)
          /\ UNCHANGED tags
    /\ UNCHANGED <<documents, document_tags, nextTag>>
    /\ UnchangedStores /\ UnchangedCounters

handleMerge(t) ==
    MgSource(t) \/ MgMove(t) \/ MgRest(t) \/ MgTag(t) \/ MgCount(t) \/ MgUsage(t)

-----------------------------------------------------------------------------
(* DELETE /documents/:id *)

RemoveKey(key) == [k \in DOMAIN FILES \ {key} |-> FILES[k]]

\* the document joined with the caller's membership; an owner may delete any
\* document, everyone else only documents they uploaded
DeleteStart(t, user, d) ==
    /\ Starts(t)
    /\ LET frame == [NoFrame EXCEPT !.op = "delete", !.user = user, !.doc = d] IN
       IF Exists(d) /\ <<user, documents[d].workspace_id>> \in Members
       THEN IF <<user, documents[d].workspace_id>> \in Owners
               \/ documents[d].user_id = user
            THEN Goto(t, [frame EXCEPT !.pc = "dd_file", !.ws = documents[d].workspace_id,
                                       !.textKey = documents[d].text_key])
            ELSE /\ task' = task
                 /\ resp' = Answer(frame, "Insufficient permissions", d)
       ELSE /\ task' = task
            /\ resp' = Answer(frame, "Document not found", d)
    /\ UNCHANGED <<documents, tags, document_tags, nextTag, faults>>
    /\ UNCHANGED <<FILES, VECTORS, document_chunks, queue, nextDoc, runs, hasQueue>>

\* env.FILES.delete(doc.file_key)
DdFile(t) ==
    /\ At(t, "dd_file")
    /\ \/ /\ FILES' = RemoveKey(FileKey(task[t].doc))
          /\ Goto(t, [task[t] EXCEPT !.pc = IF task[t].textKey # NoKey THEN "dd_text"
                                            ELSE "dd_ids"])
          /\ UNCHANGED faults
       \/ /\ Abort(t)
          /\ UNCHANGED FILES
    /\ UNCHANGED <<documents, VECTORS, document_chunks, tags, document_tags, queue, nextTag>>
    /\ UnchangedCounters

\* env.FILES.delete(doc.text_key)
DdText(t) ==
    /\ At(t, "dd_text")
    /\ \/ /\ FILES' = RemoveKey(task[t].textKey)
          /\ Goto(t, [task[t] EXCEPT !.pc = "dd_ids"])
          /\ UNCHANGED faults
       \/ /\ Abort(t)
          /\ UNCHANGED FILES
    /\ UNCHANGED <<documents, VECTORS, document_chunks, tags, document_tags, queue, nextTag>>
    /\ UnchangedCounters

\* SELECT id FROM document_chunks WHERE document_id = ?
DdIds(t) ==
    /\ At(t, "dd_ids")
    /\ \/ /\ LET ids == ChunkIdsOf(document_chunks, task[t].doc) IN
             Goto(t, [task[t] EXCEPT !.ids = ids,
                                     !.pc = IF ids # {} THEN "dd_vectors" ELSE "dd_chunks"])
          /\ UNCHANGED faults
       \/ Abort(t)
    /\ UNCHANGED <<documents, FILES, VECTORS, document_chunks, tags, document_tags,
                   queue, nextTag>>
    /\ UnchangedCounters

\* env.VECTORS.deleteByIds(ids)
DdVectors(t) ==
    /\ At(t, "dd_vectors")
    /\ \/ /\ VECTORS' = VECTORS \ task[t].ids
          /\ Goto(t, [task[t] EXCEPT !.pc = "dd_chunks"])
          /\ UNCHANGED faults
       \/ /\ Abort(t)
          /\ UNCHANGED VECTORS
    /\ UNCHANGED <<documents, FILES, document_chunks, tags, document_tags, queue, nextTag>>
    /\ UnchangedCounters

\* DELETE FROM document_chunks WHERE document_id = ?
DdChunks(t) ==
    /\ At(t, "dd_chunks")
    /\ \/ /\ document_chunks' = document_chunks \ ChunkIdsOf(document_chunks, task[t].doc)
          /\ Goto(t, [task[t] EXCEPT !.pc = "dd_tags"])
          /\ UNCHANGED faults
       \/ /\ Abort(t)
          /\ UNCHANGED document_chunks
    /\ UNCHANGED <<documents, FILES, VECTORS, tags, document_tags, queue, nextTag>>
    /\ UnchangedCounters

\* DELETE FROM document_tags WHERE document_id = ?: no usage_count is touched
DdTags(t) ==
    /\ At(t, "dd_tags")
    /\ \/ /\ document_tags' = document_tags \ RowsOfDoc(document_tags, task[t].doc)
          /\ Goto(t, [task[t] EXCEPT !.pc = "dd_doc"])
          /\ UNCHANGED faults
       \/ /\ Abort(t)
          /\ UNCHANGED document_tags
    /\ UNCHANGED <<documents, FILES, VECTORS, document_chunks, tags, queue, nextTag>>
    /\ UnchangedCounters

\* DELETE FROM documents WHERE id = ?: refused while a chunk row or a
\* document_tags row references the document
DdDoc(t) ==
    /\ At(t, "dd_doc")
    /\ LET d == task[t].doc
           referenced == ChunkIdsOf(document_chunks, d) # {}
                         \/ RowsOfDoc(document_tags, d) # {}
       IN  \/ /\ referenced
              /\ Respond(t, "failed", d)
              /\ UNCHANGED <<documents, faults>>
           \/ /\ ~referenced
              /\ documents' = [k \in DOMAIN documents \ {d} |-> documents[k]]
              /\ Respond(t, "Document deleted", d)
              /\ UNCHANGED faults
           \/ /\ Abort(t)
              /\ UNCHANGED documents
    /\ UNCHANGED <<FILES, VECTORS, document_chunks, tags, document_tags, queue, nextTag>>
    /\ UnchangedCounters

\* the MCP tool delete_document with a key of `user` for workspace `ws` (no
\* viewer holds a key in the model): the document of the key's workspace, an
\* editor only over documents they uploaded; then the statements of
\* handleDelete, one for one, and an answer that says the document is deleted
ToolDeleteStart(t, user, ws, d) ==
    /\ Starts(t)
    /\ <<user, ws>> \in Writers
    /\ LET frame == [NoFrame EXCEPT !.op = "tool_delete", !.user = user, !.doc = d] IN
       IF Exists(d) /\ documents[d].workspace_id = ws
       THEN IF <<user, ws>> \notin Owners /\ documents[d].user_id # user
            THEN /\ task' = task
                 /\ resp' = Answer(frame, "Can only delete your own documents", d)
            ELSE Goto(t, [frame EXCEPT !.pc = "dd_file", !.ws = ws,
                                       !.textKey = documents[d].text_key])
       ELSE /\ task' = task
            /\ resp' = Answer(frame, "Document not found", d)
    /\ UNCHANGED <<documents, tags, document_tags, nextTag, faults>>
    /\ UNCHANGED <<FILES, VECTORS, document_chunks, queue, nextDoc, runs, hasQueue>>

handleDelete(t) ==
    \/ DdFile(t) \/ DdText(t) \/ DdIds(t) \/ DdVectors(t) \/ DdChunks(t)
    \/ DdTags(t) \/ DdDoc(t)

-----------------------------------------------------------------------------
(* Search *)

\* relevance scores a vector match may carry
Scores == {1, 2}

\* isoNow() is read in the statement after generateId(): documents are
\* created in the order in which their ids are handed out
CreatedAt(d) == d

\* every way to list the elements of S once
RECURSIVE Orderings(_)
Orderings(S) ==
    IF S = {} THEN {<<>>}
    ELSE UNION { { <<x>> \o q : q \in Orderings(S \ {x}) } : x \in S }

\* the match lists a vector query may return over the vectors S: at most k
\* matches, distinct vectors, best score first, no score above top
RECURSIVE MatchLists(_, _, _)
MatchLists(S, k, top) ==
    {<<>>} \cup
    IF k = 0 THEN {}
    ELSE UNION { { <<[id |-> v, score |-> sc]>> \o rest :
                       rest \in MatchLists(S \ {v}, k - 1, sc) } :
                 v \in S, sc \in { x \in Scores : x <= top } }

\* env.VECTORS.query(embedding, { topK, filter: { workspace_id } }): the
\* metadata of a vector holds the workspace of its document (no document is
\* deleted in the scenarios that query).  The index applies upserts
\* asynchronously and searches approximately, so that a stored vector may be
\* missing from the matches
QueryVectors(wsIds, topK) ==
    MatchLists({ v \in VECTORS : Exists(v[1]) /\ documents[v[1]].workspace_id \in wsIds },
               topK, 2)

\* the loop over vectorResults.matches of the combined search: the first
\* match of a document sets its score (match.score || 0)
SemanticScores(matches) ==
    [d \in { matches[k].id[1] : k \in DOMAIN matches } |->
        matches[CHOOSE k \in DOMAIN matches :
                    /\ matches[k].id[1] = d
                    /\ \A j \in 1..(k - 1) : matches[j].id[1] # d].score]

\* Math.min(body.limit || 20, 100)
Limit(req) == Min(IF req.limit = 0 THEN 20 ELSE req.limit, 100)

\* FROM documents d LEFT JOIN document_tags dt LEFT JOIN tags t
\* WHERE d.workspace_id IN (...) AND d.status = 'ready' [AND t.name IN (...)]
Matching(wsIds, names) ==
    { d \in DOMAIN documents :
        /\ documents[d].workspace_id \in wsIds
        /\ documents[d].status = "ready"
        /\ names # {} =>
              \E p \in RowsOfDoc(document_tags, d) :
                  p[2] \in DOMAIN tags /\ tags[p[2]].name \in names }

\* the comparator of a sort that looks at the creation dates only
CompareDates(a, b) == CreatedAt(b.id) - CreatedAt(a.id)

\* the comparator of documents.sort in the combined search: a result above
\* zero puts b before a.  A relevance_score is <<s>>, or <<>> for undefined
Compare(a, b) ==
    IF a.score # <<>> /\ b.score # <<>>
    THEN b.score[1] - a.score[1]
    ELSE CreatedAt(b.id) - CreatedAt(a.id)

\* Array.prototype.sort with that comparator: a stable sort, here by insertion
RECURSIVE SortDocuments(_)
SortDocuments(docs) ==
    IF Len(docs) <= 1 THEN docs
    ELSE LET x == docs[Len(docs)]
             sorted == SortDocuments(SubSeq(docs, 1, Len(docs) - 1))
             k == CHOOSE k \in 0..Len(sorted) :
                      /\ \A j \in (k + 1)..Len(sorted) : Compare(sorted[j], x) > 0
                      /\ k > 0 => Compare(sorted[k], x) <= 0
         IN  SubSeq(sorted, 1, k) \o <<x>> \o SubSeq(sorted, k + 1, Len(sorted))

\* the rows of the filter query as the combined search answers them:
\* doc.relevance_score = semanticScores.get(doc.id), then documents.sort
RankedRows(rows, matches) ==
    LET semanticScores == SemanticScores(matches) IN
    SortDocuments([k \in DOMAIN rows |->
                      [id |-> rows[k],
                       score |-> IF rows[k] \in DOMAIN semanticScores
                                 THEN <<semanticScores[rows[k]]>>
                                 ELSE <<>>]])

\* what a search answers, and the request it answers
SearchAnswer(frame, status, docs, total, more) ==
    [op |-> frame.op, status |-> status, id |-> 0, ws |-> frame.ws, bytes |-> "",
     req |-> frame.req, matches |-> frame.matches,
     documents |-> docs, total |-> total, has_more |-> more]

\* the catch of a search handler: errorResponse('Search failed', 500)
SearchFailed(t) ==
    /\ Fails
    /\ task' = [task EXCEPT ![t] = NoFrame]
    /\ resp' = SearchAnswer(task[t], "Search failed", <<>>, 0, FALSE)

\* POST /search and POST /search/combined: the body is parsed and the handler
\* awaits the workspaces of the user
SearchStart(t, op, user, req) ==
    /\ Starts(t)
    /\ Goto(t, [NoFrame EXCEPT !.op = op, !.pc = op \o "_ws", !.user = user, !.req = req])
    /\ UNCHANGED <<documents, FILES, VECTORS, document_chunks, tags, document_tags,
                   queue, nextDoc, nextTag, faults, runs, hasQueue>>
    /\ NoChat /\ Fixed

handleFacetedSearch(t) ==
    /\ \* SELECT workspace_id FROM workspace_members WHERE user_id = ?
       \/ /\ At(t, "faceted_ws")
          /\ LET wsIds == { w \in Workspaces : <<task[t].user, w>> \in Members } IN
             \/ /\ wsIds = {}
                /\ task' = [task EXCEPT ![t] = NoFrame]
                /\ resp' = SearchAnswer(task[t], "ok", <<>>, 0, FALSE)
                /\ UNCHANGED faults
             \/ /\ wsIds # {}
                /\ Goto(t, [task[t] EXCEPT !.pc = "faceted_select", !.ids = wsIds])
                /\ UNCHANGED faults
             \/ SearchFailed(t)
       \* SELECT DISTINCT ... ORDER BY d.created_at DESC LIMIT limit + 1 OFFSET offset
       \/ /\ At(t, "faceted_select")
          /\ \/ /\ LET all == CHOOSE q \in Orderings(Matching(task[t].ids, task[t].req.tags)) :
                                  \A i, j \in DOMAIN q :
                                      i < j => CreatedAt(q[i]) >= CreatedAt(q[j])
                       from == Min(task[t].req.offset, Len(all)) + 1
                       to == Min(task[t].req.offset + Limit(task[t].req) + 1, Len(all))
                   IN  Goto(t, [task[t] EXCEPT !.pc = "faceted_count",
                                               !.rows = SubSeq(all, from, to)])
                /\ UNCHANGED faults
             \/ SearchFailed(t)
       \* enrichDocuments(result.results.slice(0, limit)), hasMore, then
       \* SELECT COUNT(DISTINCT d.id) and the answer
       \/ /\ At(t, "faceted_count")
          /\ \/ /\ LET limit == Limit(task[t].req)
                       page == SubSeq(task[t].rows, 1, Min(limit, Len(task[t].rows)))
                   IN  /\ task' = [task EXCEPT ![t] = NoFrame]
                       /\ resp' = SearchAnswer(task[t], "ok",
                                     [k \in DOMAIN page |-> [id |-> page[k], score |-> <<>>]],
                                     Cardinality(Matching(task[t].ids, task[t].req.tags)),
                                     Len(task[t].rows) > limit)
                /\ UNCHANGED faults
             \/ SearchFailed(t)
    /\ UNCHANGED <<documents, FILES, VECTORS, document_chunks, tags, document_tags,
                   queue, ops, nextDoc, nextTag, runs, hasQueue>>
    /\ NoChat /\ Fixed

handleCombinedSearch(t) ==
    /\ \* SELECT workspace_id FROM workspace_members WHERE user_id = ?
       \/ /\ At(t, "combined_ws")
          /\ LET wsIds == { w \in Workspaces : <<task[t].user, w>> \in Members } IN
             \/ /\ wsIds = {}
                /\ task' = [task EXCEPT ![t] = NoFrame]
                /\ resp' = SearchAnswer(task[t], "ok", <<>>, 0, FALSE)
                /\ UNCHANGED faults
             \/ /\ wsIds # {}
                /\ Goto(t, [task[t] EXCEPT !.ids = wsIds,
                               !.pc = IF task[t].req.query # "" THEN "combined_query"
                                      ELSE "combined_filter"])
                /\ UNCHANGED faults
             \/ SearchFailed(t)
       \* generateEmbedding(body.query), then env.VECTORS.query with topK = limit * 3
       \/ /\ At(t, "combined_query")
          /\ \/ /\ \E m \in QueryVectors(task[t].ids, Limit(task[t].req) * 3) :
                      Goto(t, [task[t] EXCEPT !.pc = "combined_filter", !.matches = m])
                /\ UNCHANGED faults
             \/ SearchFailed(t)
       \* the filter SELECT ... GROUP BY d.id: restricted to the semantic ids
       \* only if there are any; the rows come in an order the code does not fix
       \/ /\ At(t, "combined_filter")
          /\ \/ /\ LET semanticDocIds == DOMAIN SemanticScores(task[t].matches)
                       found == { d \in Matching(task[t].ids, task[t].req.tags) :
                                    semanticDocIds # {} => d \in semanticDocIds }
                   IN  \E q \in Orderings(found) :
                          Goto(t, [task[t] EXCEPT !.pc = "combined_sort", !.rows = q])
                /\ UNCHANGED faults
             \/ SearchFailed(t)
       \* enrichDocuments, the scores, the sort, and the answer
       \/ /\ At(t, "combined_sort")
          /\ \/ /\ LET sorted == RankedRows(task[t].rows, task[t].matches)
                       limit == Limit(task[t].req)
                   IN  /\ task' = [task EXCEPT ![t] = NoFrame]
                       /\ resp' = SearchAnswer(task[t], "ok",
                                     SubSeq(sorted, 1, Min(limit, Len(sorted))),
                                     Len(sorted), Len(sorted) > limit)
                /\ UNCHANGED faults
             \/ SearchFailed(t)
    /\ UNCHANGED <<documents, FILES, VECTORS, document_chunks, tags, document_tags,
                   queue, ops, nextDoc, nextTag, runs, hasQueue>>
    /\ NoChat /\ Fixed

\* POST /search/semantic
handleSemanticSearch(t) ==
    /\ \* the body, then SELECT workspace_id FROM workspace_members WHERE user_id = ?
       \/ /\ At(t, "semantic_ws")
          /\ LET wsIds == { w \in Workspaces : <<task[t].user, w>> \in Members } IN
             \/ /\ task[t].req.query = ""
                /\ task' = [task EXCEPT ![t] = NoFrame]
                /\ resp' = SearchAnswer(task[t], "Query is required", <<>>, 0, FALSE)
                /\ UNCHANGED faults
             \/ /\ task[t].req.query # "" /\ wsIds = {}
                /\ task' = [task EXCEPT ![t] = NoFrame]
                /\ resp' = SearchAnswer(task[t], "ok", <<>>, 0, FALSE)
                /\ UNCHANGED faults
             \/ /\ task[t].req.query # "" /\ wsIds # {}
                /\ Goto(t, [task[t] EXCEPT !.pc = "semantic_query", !.ids = wsIds])
                /\ UNCHANGED faults
             \/ SearchFailed(t)
       \* generateEmbedding(body.query), then env.VECTORS.query with
       \* topK = limit * 2 where limit = Math.min(body.limit || 10, 50)
       \/ /\ At(t, "semantic_query")
          /\ \/ /\ LET limit == Min(IF task[t].req.limit = 0 THEN 10 ELSE task[t].req.limit, 50)
                   IN  \E m \in QueryVectors(task[t].ids, limit * 2) :
                          \/ /\ m = <<>>
                             /\ task' = [task EXCEPT ![t] = NoFrame]
                             /\ resp' = SearchAnswer([task[t] EXCEPT !.matches = m],
                                                     "ok", <<>>, 0, FALSE)
                          \/ /\ m # <<>>
                             /\ Goto(t, [task[t] EXCEPT !.pc = "semantic_docs", !.matches = m])
                /\ UNCHANGED faults
             \/ SearchFailed(t)
       \* documentScores, docIds = its keys .slice(0, limit), SELECT ... FROM
       \* documents WHERE id IN (docIds) with no condition on the status, the
       \* tags of each row, documents.sort by relevance_score, and the answer
       \/ /\ At(t, "semantic_docs")
          /\ \/ /\ LET m == task[t].matches
                       limit == Min(IF task[t].req.limit = 0 THEN 10 ELSE task[t].req.limit, 50)
                       firsts == { k \in DOMAIN m :
                                     \A j \in 1..(k - 1) : m[j].id[1] # m[k].id[1] }
                       keys == CHOOSE q \in Orderings(firsts) :
                                   \A i, j \in DOMAIN q : i < j => q[i] < q[j]
                       docIds == { m[keys[k]].id[1] : k \in 1..Min(limit, Len(keys)) }
                       score(d) == CHOOSE x \in { m[k].score : k \in DOMAIN m } :
                                      /\ \E k \in DOMAIN m : m[k].id[1] = d /\ m[k].score = x
                                      /\ \A k \in DOMAIN m : m[k].id[1] = d => m[k].score <= x
                   IN  \E q \in Orderings({ d \in docIds : Exists(d) }) :
                          LET sorted == SortDocuments([k \in DOMAIN q |->
                                           [id |-> q[k], score |-> <<score(q[k])>>]])
                          IN  /\ task' = [task EXCEPT ![t] = NoFrame]
                              /\ resp' = SearchAnswer(task[t], "ok", sorted, Len(sorted), FALSE)
                /\ UNCHANGED faults
             \/ SearchFailed(t)
    /\ UNCHANGED <<documents, FILES, VECTORS, document_chunks, tags, document_tags,
                   queue, ops, nextDoc, nextTag, runs, hasQueue>>
    /\ NoChat /\ Fixed

-----------------------------------------------------------------------------
(* Chat *)

\* the fragments the model's stream may yield (chunk.response)
Fragments == {"x", "y"}

\* the title a source carries for document d: doc?.title || 'Unknown Document'
TitleOf(d) ==
    IF Exists(d) THEN [title |-> "file.name", doc |-> d]
    ELSE [title |-> "Unknown Document", doc |-> 0]

\* an INSERT that stores nothing
InsertNothing(role, sess, content, sources) == chat_messages

\* INSERT INTO chat_messages (id, session_id, role, content, sources, created_at);
\* the id is the row's place in the table
InsertMessage(role, sess, content, sources) ==
    Append(chat_messages,
           [id |-> Len(chat_messages) + 1, session_id |-> sess, role |-> role,
            content |-> content, sources |-> sources])

\* an enqueue that puts the event in front of the events enqueued before
EmitInFront(events, type, arg) == <<[type |-> type, arg |-> arg]>> \o events

\* controller.enqueue(encoder.encode(`data: ${JSON.stringify({ type, ... })}\n\n`))
Emit(events, type, arg) == Append(events, [type |-> type, arg |-> arg])

\* a catch that closes the stream without an event
StreamCatchSilent(events) == events

\* the catch of start(controller): the error event, then controller.close()
StreamCatch(events) == Emit(events, "error", <<>>)

\* what a chat turn answered (for a stream: the events up to its close), and
\* the turn it answers
ChatAnswer(frame, status, id) ==
    [op |-> frame.op, status |-> status, id |-> id, ws |-> frame.ws, bytes |-> "",
     req |-> frame.req, sess |-> frame.sess, umsg |-> frame.umsg,
     sources |-> frame.rows, content |-> frame.content, events |-> frame.events,
     gen |-> frame.gen]

\* the catch of handleSendMessage: errorResponse('Failed to process message', 500)
ChatFailed(t) ==
    /\ Fails
    /\ task' = [task EXCEPT ![t] = NoFrame]
    /\ resp' = ChatAnswer(task[t], "Failed to process message", 0)
    /\ UNCHANGED <<chat_sessions, chat_messages>>

\* an exception inside start(controller)
StreamFailed(t) ==
    /\ Fails
    /\ task' = [task EXCEPT ![t] = NoFrame]
    /\ resp' = ChatAnswer([task[t] EXCEPT !.events = StreamCatch(@)], "closed", 0)
    /\ UNCHANGED <<chat_sessions, chat_messages>>

\* POST /chat/sessions: the membership SELECT, then the INSERT
handleCreateSession(t, user, ws) ==
    /\ Starts(t)
    /\ LET frame == [NoFrame EXCEPT !.op = "session", !.user = user, !.ws = ws]
           id == Cardinality(DOMAIN chat_sessions) + 1
       IN  \/ /\ <<user, ws>> \notin Members
              /\ resp' = Answer(frame, "Workspace not found", 0)
              /\ UNCHANGED <<chat_sessions, faults>>
           \/ /\ <<user, ws>> \in Members
              /\ chat_sessions' = [c \in DOMAIN chat_sessions \cup {id} |->
                                      IF c = id THEN [workspace_id |-> ws, user_id |-> user]
                                      ELSE chat_sessions[c]]
              /\ resp' = Answer(frame, "created", id)
              /\ UNCHANGED faults
           \/ /\ Fails
              /\ resp' = Answer(frame, "Failed to create session", 0)
              /\ UNCHANGED chat_sessions
    /\ UNCHANGED <<task, chat_messages>>
    /\ UNCHANGED <<documents, FILES, VECTORS, document_chunks, tags, document_tags,
                   queue, nextDoc, nextTag, runs, hasQueue>>

\* POST /chat/sessions/:id/messages: the session joined with the caller's
\* membership, then the body
SendStart(t, user, sess, req) ==
    /\ Starts(t)
    /\ LET frame == [NoFrame EXCEPT !.op = "chat", !.user = user, !.sess = sess,
                                    !.req = req]
           found == /\ sess \in DOMAIN chat_sessions
                    /\ <<user, chat_sessions[sess].workspace_id>> \in Members
       IN  \/ /\ ~found
              /\ task' = task
              /\ resp' = ChatAnswer(frame, "Session not found", 0)
              /\ UNCHANGED faults
           \/ /\ found
              /\ req.message = ""
              /\ task' = task
              /\ resp' = ChatAnswer(frame, "Message is required", 0)
              /\ UNCHANGED faults
           \/ /\ found
              /\ req.message # ""
              /\ Goto(t, [frame EXCEPT !.pc = "sm_insert",
                                       !.ws = chat_sessions[sess].workspace_id])
              /\ UNCHANGED faults
           \/ /\ Fails
              /\ task' = task
              /\ resp' = ChatAnswer(frame, "failed", 0)
    /\ UNCHANGED <<chat_sessions, chat_messages>>
    /\ UNCHANGED <<documents, FILES, VECTORS, document_chunks, tags, document_tags,
                   queue, nextDoc, nextTag, runs, hasQueue>>

retrieveContext(t) ==
    /\ \* generateEmbedding(query), then env.VECTORS.query with topK: 10
       \/ /\ At(t, "rc_query")
          /\ \/ /\ \E m \in QueryVectors({task[t].ws}, 10) :
                      Goto(t, [task[t] EXCEPT !.matches = m, !.i = 1, !.rows = <<>>,
                                  !.pc = IF m = <<>> THEN "sm_history" ELSE "rc_loop"])
                /\ UNCHANGED faults
             \/ ChatFailed(t)
       \* one pass of the loop over vectorResults.matches
       \/ /\ At(t, "rc_loop")
          /\ LET match == task[t].matches[task[t].i]
                 docId == match.id[1]
                 sources == task[t].rows
                 seenDocs == { sources[k].document_id : k \in DOMAIN sources }
                 after == IF task[t].i < Len(task[t].matches) THEN "rc_loop"
                          ELSE "sm_history"
                 push(title) ==
                     Goto(t, [task[t] EXCEPT !.i = @ + 1, !.pc = after,
                                 !.rows = Append(sources,
                                             [document_id |-> docId,
                                              document_title |-> title,
                                              chunk_id |-> match.id,
                                              relevance_score |-> match.score])])
             IN  \/ /\ Cardinality(seenDocs) >= 5 /\ docId \notin seenDocs
                    /\ Goto(t, [task[t] EXCEPT !.i = @ + 1, !.pc = after])
                    /\ UNCHANGED faults
                 \* SELECT title FROM documents WHERE id = ?
                 \/ /\ ~(Cardinality(seenDocs) >= 5) /\ docId \notin seenDocs
                    /\ \/ push(TitleOf(docId)) /\ UNCHANGED faults
                       \/ ChatFailed(t)
                 \* the title of the source pushed before for this document
                 \/ /\ docId \in seenDocs
                    /\ push((CHOOSE s \in { sources[k] : k \in DOMAIN sources } :
                                s.document_id = docId).document_title)
                    /\ UNCHANGED faults
    /\ UNCHANGED <<chat_sessions, chat_messages>>
    /\ UNCHANGED <<documents, FILES, VECTORS, document_chunks, tags, document_tags,
                   queue, ops, nextDoc, nextTag, runs, hasQueue>>

\* the entries of messages between the system prompt and the user prompt:
\* SELECT role, content FROM chat_messages WHERE session_id = ? ORDER BY
\* created_at DESC LIMIT 10, then .reverse().slice(0, -1).  created_at is taken
\* right before each INSERT, so the rows are in the order of the table; a row
\* keeps its id here to tell two rows of the same words apart
ConversationHistory(sess) ==
    LET rows == SelectSeq(chat_messages, LAMBDA m : m.session_id = sess)
        results == [k \in 1..Min(10, Len(rows)) |-> rows[Len(rows) - k + 1]]
        reversed == [k \in 1..Len(results) |-> results[Len(results) - k + 1]]
        sliced == IF reversed = <<>> THEN <<>>
                  ELSE SubSeq(reversed, 1, Len(reversed) - 1)
    IN  [k \in 1..Len(sliced) |->
            [id |-> sliced[k].id, role |-> sliced[k].role, content |-> sliced[k].content]]

handleSendMessage(t) ==
    /\ \* INSERT INTO chat_messages ... 'user', then retrieveContext
       \/ /\ At(t, "sm_insert")
          /\ \/ /\ chat_messages' = InsertMessage("user", task[t].sess, task[t].req.message, <<>>)
                /\ Goto(t, [task[t] EXCEPT !.pc = "rc_query",
                                           !.umsg = Len(chat_messages) + 1])
                /\ UNCHANGED faults
             \/ ChatFailed(t)
       \* SELECT role, content FROM chat_messages ... LIMIT 10, then the Accept
       \* header: streamResponse, or env.AI.run
       \/ /\ At(t, "sm_history")
          /\ \/ /\ Goto(t, [task[t] EXCEPT !.gen = TRUE,
                               !.history = ConversationHistory(task[t].sess),
                               !.pc = IF task[t].req.sse THEN "sr_run" ELSE "sm_generate"])
                /\ UNCHANGED <<faults, chat_messages>>
             \/ ChatFailed(t)
       \* env.AI.run(model, { messages })
       \/ /\ At(t, "sm_generate")
          /\ \/ /\ \E f \in Fragments :
                      Goto(t, [task[t] EXCEPT !.pc = "sm_save", !.content = <<f>>])
                /\ UNCHANGED <<faults, chat_messages>>
             \/ ChatFailed(t)
       \* INSERT INTO chat_messages ... 'assistant'
       \/ /\ At(t, "sm_save")
          /\ \/ /\ chat_messages' = InsertMessage("assistant", task[t].sess,
                                                  task[t].content, task[t].rows)
                /\ Goto(t, [task[t] EXCEPT !.pc = "sm_touch",
                                           !.amsg = Len(chat_messages) + 1])
                /\ UNCHANGED faults
             \/ ChatFailed(t)
       \* UPDATE chat_sessions SET updated_at = ?, then the JSON answer
       \/ /\ At(t, "sm_touch")
          /\ \/ /\ task' = [task EXCEPT ![t] = NoFrame]
                /\ resp' = ChatAnswer(task[t], "ok", task[t].amsg)
                /\ UNCHANGED <<faults, chat_messages>>
             \/ ChatFailed(t)
    /\ UNCHANGED chat_sessions
    /\ UNCHANGED <<documents, FILES, VECTORS, document_chunks, tags, document_tags,
                   queue, ops, nextDoc, nextTag, runs, hasQueue>>

\* start(controller) of the stream that streamResponse answers with
streamResponse(t) ==
    /\ \* env.AI.run(model, { messages, stream: true })
       \/ /\ At(t, "sr_run")
          /\ \/ /\ Goto(t, [task[t] EXCEPT !.pc = "sr_read"])
                /\ UNCHANGED <<faults, chat_messages>>
             \/ StreamFailed(t)
       \* for await (const chunk of response): a fragment, or the end of the
       \* stream and the sources event
       \/ /\ At(t, "sr_read")
          /\ \/ /\ Len(task[t].content) < MaxFragments
                /\ \E f \in Fragments :
                      Goto(t, [task[t] EXCEPT !.content = Append(@, f),
                                              !.events = Emit(@, "content", <<f>>)])
                /\ UNCHANGED <<faults, chat_messages>>
             \/ /\ Goto(t, [task[t] EXCEPT !.pc = "sr_save",
                                           !.events = Emit(@, "sources", task[t].rows)])
                /\ UNCHANGED <<faults, chat_messages>>
             \/ StreamFailed(t)
       \* INSERT INTO chat_messages ... 'assistant'
       \/ /\ At(t, "sr_save")
          /\ \/ /\ chat_messages' = InsertMessage("assistant", task[t].sess,
                                                  task[t].content, task[t].rows)
                /\ Goto(t, [task[t] EXCEPT !.pc = "sr_touch",
                                           !.amsg = Len(chat_messages) + 1])
                /\ UNCHANGED faults
             \/ StreamFailed(t)
       \* UPDATE chat_sessions SET updated_at = ?, the done event, controller.close()
       \/ /\ At(t, "sr_touch")
          /\ \/ /\ task' = [task EXCEPT ![t] = NoFrame]
                /\ resp' = ChatAnswer([task[t] EXCEPT
                                          !.events = Emit(@, "done", <<task[t].amsg>>)],
                                      "closed", task[t].amsg)
                /\ UNCHANGED <<faults, chat_messages>>
             \/ StreamFailed(t)
    /\ UNCHANGED chat_sessions
    /\ UNCHANGED <<documents, FILES, VECTORS, document_chunks, tags, document_tags,
                   queue, ops, nextDoc, nextTag, runs, hasQueue>>

-----------------------------------------------------------------------------
(* Roles: member updates and the handlers that write tags and titles *)

\* PATCH /workspaces/:id/members/:userId: the caller's membership, the body,
\* then UPDATE workspace_members SET role = ?.  The row the handler reads is
\* the caller's own, which this handler is the only one to write and never
\* for its caller, so the statements are taken in one step
handleUpdateMember(t, user, ws, member, role) ==
    /\ Starts(t)
    /\ LET frame == [NoFrame EXCEPT !.op = "updateMember", !.user = user, !.ws = ws] IN
       \/ /\ <<user, ws>> \notin Owners
          /\ resp' = Answer(frame, "Only workspace owners can update member roles", 0)
          /\ UNCHANGED <<workspace_members, faults>>
       \/ /\ <<user, ws>> \in Owners
          /\ member = user
          /\ resp' = Answer(frame, "Cannot change your own role", 0)
          /\ UNCHANGED <<workspace_members, faults>>
       \/ /\ <<user, ws>> \in Owners
          /\ member # user
          /\ role \notin {"editor", "viewer"}
          /\ resp' = Answer(frame, "Invalid role", 0)
          /\ UNCHANGED <<workspace_members, faults>>
       \/ /\ <<user, ws>> \in Owners
          /\ member # user
          /\ role \in {"editor", "viewer"}
          /\ workspace_members' =
                [m \in Members |-> IF m = <<member, ws>> THEN role
                                   ELSE workspace_members[m]]
          /\ resp' = Answer(frame, "Member role updated", 0)
          /\ UNCHANGED faults
       \/ /\ Fails
          /\ resp' = Answer(frame, "failed", 0)
          /\ UNCHANGED workspace_members
    /\ UNCHANGED <<documents, FILES, VECTORS, document_chunks, tags, document_tags,
                   queue, task, nextDoc, nextTag, runs, hasQueue,
                   chat_sessions, chat_messages, call>>

\* POST /tags: the body, then the caller's role in body.workspace_id
TagCreateStart(t, user, ws, name) ==
    /\ Starts(t)
    /\ LET frame == [NoFrame EXCEPT !.op = "tagCreate", !.user = user, !.ws = ws,
                                    !.tagq = <<name>>] IN
       IF <<user, ws>> \in Writers
       THEN Goto(t, [frame EXCEPT !.pc = "tc_find"])
       ELSE /\ task' = task
            /\ resp' = Answer(frame, "Insufficient permissions", 0)
    /\ UNCHANGED <<documents, tags, document_tags, nextTag, faults>>
    /\ UNCHANGED <<FILES, VECTORS, document_chunks, queue, nextDoc, runs, hasQueue>>

tagCreate(t) ==
    /\ \* SELECT id FROM tags WHERE workspace_id = ? AND name = ?
       \/ /\ At(t, "tc_find")
          /\ \/ /\ IF TagIdOf(task[t].ws, Head(task[t].tagq)) # {}
                   THEN Respond(t, "Tag already exists", 0)
                   ELSE Goto(t, [task[t] EXCEPT !.pc = "tc_insert"])
                /\ UNCHANGED faults
             \/ Abort(t)
          /\ UNCHANGED <<tags, nextTag>>
       \* INSERT INTO tags (id, workspace_id, name, category, usage_count, created_at)
       \/ /\ At(t, "tc_insert")
          /\ \/ /\ TagIdOf(task[t].ws, Head(task[t].tagq)) # {}
                /\ Respond(t, "failed", 0)
                /\ UNCHANGED <<tags, nextTag, faults>>
             \/ /\ TagIdOf(task[t].ws, Head(task[t].tagq)) = {}
                /\ tags' = InsertTag(nextTag + 1, task[t].ws, Head(task[t].tagq))
                /\ nextTag' = nextTag + 1
                /\ Respond(t, "created", nextTag + 1)
                /\ UNCHANGED faults
             \/ /\ Abort(t)
                /\ UNCHANGED <<tags, nextTag>>
    /\ UNCHANGED <<documents, document_tags>>
    /\ UnchangedStores /\ UnchangedCounters

\* PUT /tags/:id with a name: the tag joined with the caller's membership
TagUpdateStart(t, user, g, name) ==
    /\ Starts(t)
    /\ LET frame == [NoFrame EXCEPT !.op = "tagUpdate", !.user = user, !.tagId = g,
                                    !.tagq = <<name>>] IN
       IF g \in DOMAIN tags /\ <<user, tags[g].workspace_id>> \in Members
       THEN IF <<user, tags[g].workspace_id>> \in Writers
            THEN Goto(t, [frame EXCEPT !.pc = "tu_update", !.ws = tags[g].workspace_id])
            ELSE /\ task' = task
                 /\ resp' = Answer(frame, "Insufficient permissions", 0)
       ELSE /\ task' = task
            /\ resp' = Answer(frame, "Tag not found", 0)
    /\ UNCHANGED <<documents, tags, document_tags, nextTag, faults>>
    /\ UNCHANGED <<FILES, VECTORS, document_chunks, queue, nextDoc, runs, hasQueue>>

\* UPDATE tags SET name = ? WHERE id = ?: (workspace_id, name) is unique
tagUpdate(t) ==
    /\ At(t, "tu_update")
    /\ LET g == task[t].tagId
           name == Head(task[t].tagq)
       IN  \/ /\ g \in DOMAIN tags
              /\ TagIdOf(tags[g].workspace_id, name) \ {g} # {}
              /\ Respond(t, "failed", 0)
              /\ UNCHANGED <<tags, faults>>
           \/ /\ g \in DOMAIN tags
              /\ TagIdOf(tags[g].workspace_id, name) \ {g} = {}
              /\ tags' = [tags EXCEPT ![g].name = name]
              /\ Respond(t, "Tag updated", 0)
              /\ UNCHANGED faults
           \/ /\ g \notin DOMAIN tags
              /\ Respond(t, "Tag updated", 0)
              /\ UNCHANGED <<tags, faults>>
           \/ /\ Abort(t)
              /\ UNCHANGED tags
    /\ UNCHANGED <<documents, document_tags, nextTag>>
    /\ UnchangedStores /\ UnchangedCounters

\* PUT /documents/:id with a title: the document joined with the caller's
\* membership WHERE wm.role IN ('owner', 'editor')
DocUpdateStart(t, user, d) ==
    /\ Starts(t)
    /\ LET frame == [NoFrame EXCEPT !.op = "documentUpdate", !.user = user, !.doc = d] IN
       IF Exists(d) /\ <<user, documents[d].workspace_id>> \in Writers
       THEN Goto(t, [frame EXCEPT !.pc = "du_update", !.ws = documents[d].workspace_id])
       ELSE /\ task' = task
            /\ resp' = Answer(frame, "Document not found or insufficient permissions", d)
    /\ UNCHANGED <<documents, tags, document_tags, nextTag, faults>>
    /\ UNCHANGED <<FILES, VECTORS, document_chunks, queue, nextDoc, runs, hasQueue>>

\* UPDATE documents SET title = ?, updated_at = ? WHERE id = ?
documentUpdate(t) ==
    /\ At(t, "du_update")
    /\ \/ /\ documents' = [d \in DOMAIN documents |->
                             IF d = task[t].doc THEN [documents[d] EXCEPT !.title = "body.title"]
                             ELSE documents[d]]
          /\ Respond(t, "Document updated", task[t].doc)
          /\ UNCHANGED faults
       \/ /\ Abort(t)
          /\ UNCHANGED documents
    /\ UNCHANGED <<tags, document_tags, nextTag>>
    /\ UnchangedStores /\ UnchangedCounters

-----------------------------------------------------------------------------
(* Specifications *)

\* the members the model starts with: u1 owns W1, u2 edits W2
InitialMembers == (<<"u1", "W1">> :> "owner") @@ (<<"u2", "W2">> :> "editor")

NoCall == [fn |-> "none", words |-> 0, targetTokens |-> 0, overlapTokens |-> 0,
           chunks |-> <<>>]

\* the stores empty and nothing in progress
InitData ==
    /\ documents = [d \in {} |-> 0]
    /\ FILES = [k \in {} |-> 0]
    /\ VECTORS = {}
    /\ document_chunks = {}
    /\ tags = [g \in {} |-> 0]
    /\ document_tags = {}
    /\ queue = [d \in {} |-> 0]
    /\ task = [t \in Tasks |-> NoFrame]
    /\ resp = NoResp
    /\ ops = 0
    /\ nextDoc = 0
    /\ nextTag = 0
    /\ faults = 0
    /\ runs = [d \in DocIds |-> 0]
    /\ hasQueue \in BOOLEAN
    /\ chat_sessions = [c \in {} |-> 0]
    /\ chat_messages = <<>>
    /\ call = NoCall

Init == InitData /\ workspace_members = InitialMembers

\* One document: a text file uploaded once, in inline or in queued mode, and
\* the queue delivering its message any number of times, deliveries overlapping
PipelineFiles == { f \in UploadFiles : f.type = PlainMime }

NextPipeline ==
    \E t \in Tasks :
        \/ \E f \in PipelineFiles : nextDoc = 0 /\ UploadStart(t, "u1", "W1", f) /\ NoChat /\ Fixed
        \/ uploadFile(t) /\ NoChat /\ Fixed
        \/ \E d \in DocIds : QueueDeliver(t, d) /\ NoChat /\ Fixed
        \/ processDocument(t) /\ NoChat /\ Fixed

SpecPipeline == Init /\ [][NextPipeline]_vars

\* Tags of one document: a file of one chunk uploaded once, ingested inline or
\* from the queue, and the tag operations and the deletion of the document by
\* the owner of the workspace, one operation after the other
TagFiles == { f \in UploadFiles : f.type = EmlMime }

\* no handler is in progress
Quiet == \A t \in Tasks : Idle(t)

NextTags ==
    \E t \in Tasks :
        \/ \E f \in TagFiles : nextDoc = 0 /\ UploadStart(t, "u1", "W1", f) /\ NoChat /\ Fixed
        \/ uploadFile(t) /\ NoChat /\ Fixed
        \/ \E d \in DocIds : Quiet /\ QueueDeliver(t, d) /\ NoChat /\ Fixed
        \/ processDocument(t) /\ NoChat /\ Fixed
        \/ \E d \in DOMAIN documents, g \in DOMAIN tags : Quiet /\ AddTagsStart(t, d, g) /\ NoChat /\ Fixed
        \/ addTagsToDocument(t) /\ NoChat /\ Fixed
        \/ \E d \in DOMAIN documents, g \in DOMAIN tags : Quiet /\ RemoveTagsStart(t, d, g) /\ NoChat /\ Fixed
        \/ removeTagsFromDocument(t) /\ NoChat /\ Fixed
        \/ \E d \in DOMAIN documents, name \in TagNames :
              Quiet /\ ToolAddTagsStart(t, "u1", "W1", d, name) /\ NoChat /\ Fixed
        \/ toolAddTags(t) /\ NoChat /\ Fixed
        \/ \E d \in DOMAIN documents, name \in TagNames :
              Quiet /\ ToolRemoveTagsStart(t, "u1", "W1", d, name) /\ NoChat /\ Fixed
        \/ toolRemoveTags(t) /\ NoChat /\ Fixed
        \/ \E g \in DOMAIN tags : Quiet /\ TagDeleteStart(t, "u1", g) /\ NoChat /\ Fixed
        \/ tagDelete(t) /\ NoChat /\ Fixed
        \/ \E s \in DOMAIN tags, g \in DOMAIN tags : Quiet /\ MergeStart(t, "u1", s, g) /\ NoChat /\ Fixed
        \/ handleMerge(t) /\ NoChat /\ Fixed
        \/ \E d \in DOMAIN documents : Quiet /\ DeleteStart(t, "u1", d) /\ NoChat /\ Fixed
        \/ handleDelete(t) /\ NoChat /\ Fixed

SpecTags == Init /\ [][NextTags]_vars

\* Uploads: two users, each a writer of one workspace, send the same text file
\* or the same archive over HTTP, and the first of them sends the text file
\* through the MCP tool as well, the requests overlapping; the deployment
\* binds the queue and no consumer runs
InitUpload == Init /\ hasQueue

UploadedFiles == { f \in UploadFiles : f.type \in {PlainMime, ZipMime} }

NextUpload ==
    \E t \in Tasks :
        \/ \E w \in Writers, f \in UploadedFiles : UploadStart(t, w[1], w[2], f) /\ NoChat /\ Fixed
        \/ uploadFile(t) /\ NoChat /\ Fixed
        \/ \E f \in PipelineFiles : McpUploadStart(t, "u1", "W1", f) /\ NoChat /\ Fixed
        \/ toolUpload(t) /\ NoChat /\ Fixed

SpecUpload == InitUpload /\ [][NextUpload]_vars

\* Extraction: one file of any type, uploaded once over HTTP or through the
\* MCP tool, ingested inline or from the queue
NextExtract ==
    \E t \in Tasks :
        \/ \E f \in UploadFiles : nextDoc = 0 /\ UploadStart(t, "u1", "W1", f) /\ NoChat /\ Fixed
        \/ uploadFile(t) /\ NoChat /\ Fixed
        \/ \E f \in UploadFiles : nextDoc = 0 /\ McpUploadStart(t, "u1", "W1", f) /\ NoChat /\ Fixed
        \/ toolUpload(t) /\ NoChat /\ Fixed
        \/ \E d \in DocIds : QueueDeliver(t, d) /\ NoChat /\ Fixed
        \/ processDocument(t) /\ NoChat /\ Fixed

SpecExtract == Init /\ [][NextExtract]_vars

\* Search: the owner of a workspace uploads a PDF and a mail,
\* ingested inline or from the queue, one request after the other, and then
\* searches once; the services fail during the search only.  The search
\* requests leave document_types, date_from and date_to unset, and the
\* faceted ones carry no text query
SearchFiles == { f \in UploadFiles : f.type \in {PdfMime, EmlMime} }

SearchRequests ==
    [query : {"", "invoice"}, tags : {{}, {"invoice"}}, limit : {0, 1}, offset : {0, 1}]

\* a search handler answered last
Searched == resp.op \in {"faceted", "combined"}

NextSearch ==
    \E t \in Tasks :
        \/ \E f \in SearchFiles : Quiet /\ ~Searched /\ UploadStart(t, "u1", "W1", f) /\ faults' = faults /\ NoChat /\ Fixed
        \/ uploadFile(t) /\ faults' = faults /\ NoChat /\ Fixed
        \/ \E d \in DocIds : Quiet /\ ~Searched /\ QueueDeliver(t, d) /\ faults' = faults /\ NoChat /\ Fixed
        \/ processDocument(t) /\ faults' = faults /\ NoChat /\ Fixed
        \/ \E req \in SearchRequests :
              Quiet /\ ~Searched /\ req.query = "" /\ SearchStart(t, "faceted", "u1", req) /\ Fixed
        \/ handleFacetedSearch(t) /\ Fixed
        \/ \E req \in SearchRequests :
              Quiet /\ ~Searched /\ SearchStart(t, "combined", "u1", req) /\ Fixed
        \/ handleCombinedSearch(t) /\ Fixed

SpecSearch == Init /\ [][NextSearch]_vars

\* Chat: the owner of a workspace uploads one text of three chunks, ingested
\* inline or from the queue with no service failing, opens a session and sends
\* a message to it (or to a session that does not exist) right after, with or
\* without streaming, one request after the other and one turn at most
\* getting as far as storing the user message; the services fail while the
\* session is opened and during the turn only
ChatRequests == [message : {"", "total?"}, sse : BOOLEAN]

NextChat ==
    \E t \in Tasks :
        \/ \E f \in PipelineFiles :
              Quiet /\ DOMAIN documents = {} /\ UploadStart(t, "u1", "W1", f) /\ faults' = faults /\ NoChat /\ Fixed
        \/ uploadFile(t) /\ faults' = faults /\ NoChat /\ Fixed
        \/ \E d \in DocIds : Quiet /\ QueueDeliver(t, d) /\ faults' = faults /\ NoChat /\ Fixed
        \/ processDocument(t) /\ faults' = faults /\ NoChat /\ Fixed
        \/ Quiet /\ chat_messages = <<>> /\ handleCreateSession(t, "u1", "W1") /\ Fixed
        \/ \E c \in 1..MaxOps, req \in ChatRequests :
              Quiet /\ chat_messages = <<>> /\ resp.op = "session"
                    /\ SendStart(t, "u1", c, req) /\ Fixed
        \/ handleSendMessage(t) /\ Fixed
        \/ retrieveContext(t) /\ Fixed
        \/ streamResponse(t) /\ Fixed

SpecChat == Init /\ [][NextChat]_vars

\* the runtime runs every handler and every stream's start(controller) on,
\* and every awaited call returns or throws
FairChat == SpecChat /\ \A t \in Tasks : WF_vars(streamResponse(t) /\ Fixed)

\* Stale: the owner of a workspace uploads one text of three chunks, its
\* ingestion runs inline or from the queue and may fail at any statement, and
\* once it is over the owner searches once or opens a session and sends one
\* message; the services fail during the ingestion only
Asked == resp.op \in {"faceted", "combined", "semantic", "chat"}

NextStale ==
    \E t \in Tasks :
        \/ \E f \in PipelineFiles :
              Quiet /\ DOMAIN documents = {} /\ UploadStart(t, "u1", "W1", f) /\ faults' = faults /\ NoChat /\ Fixed
        \/ uploadFile(t) /\ NoChat /\ Fixed
        \/ \E d \in DocIds : Quiet /\ ~Asked /\ resp.op # "session" /\ QueueDeliver(t, d) /\ NoChat /\ Fixed
        \/ processDocument(t) /\ NoChat /\ Fixed
        \/ \E req \in SearchRequests :
              Quiet /\ ~Asked /\ req.query = "" /\ SearchStart(t, "faceted", "u1", req) /\ Fixed
        \/ handleFacetedSearch(t) /\ faults' = faults /\ Fixed
        \/ \E req \in SearchRequests :
              Quiet /\ ~Asked /\ SearchStart(t, "combined", "u1", req) /\ Fixed
        \/ handleCombinedSearch(t) /\ faults' = faults /\ Fixed
        \/ \E req \in SearchRequests :
              Quiet /\ ~Asked /\ req.tags = {} /\ req.offset = 0
                    /\ SearchStart(t, "semantic", "u1", req) /\ Fixed
        \/ handleSemanticSearch(t) /\ faults' = faults /\ Fixed
        \/ Quiet /\ ~Asked /\ DOMAIN chat_sessions = {}
                 /\ handleCreateSession(t, "u1", "W1") /\ faults' = faults /\ Fixed
        \/ \E sse \in BOOLEAN :
              Quiet /\ ~Asked /\ resp.op = "session"
                    /\ SendStart(t, "u1", 1, [message |-> "total?", sse |-> sse])
                    /\ faults' = faults /\ Fixed
        \/ handleSendMessage(t) /\ faults' = faults /\ Fixed
        \/ retrieveContext(t) /\ faults' = faults /\ Fixed
        \/ streamResponse(t) /\ faults' = faults /\ Fixed

SpecStale == Init /\ [][NextStale]_vars

\* History: the owner of a workspace opens a session and sends messages to
\* it, with or without streaming, a second one before or after the first is
\* answered; no document is uploaded, so every turn has no sources
NextHistory ==
    \E t \in Tasks :
        \/ Quiet /\ DOMAIN chat_sessions = {} /\ handleCreateSession(t, "u1", "W1") /\ Fixed
        \/ \E sse \in BOOLEAN :
              /\ DOMAIN chat_sessions # {}
              /\ SendStart(t, "u1", 1, [message |-> "total?", sse |-> sse]) /\ Fixed
        \/ handleSendMessage(t) /\ Fixed
        \/ retrieveContext(t) /\ Fixed
        \/ streamResponse(t) /\ Fixed

SpecHistory == Init /\ [][NextHistory]_vars

\* Delete: the owner of a workspace uploads one text of three chunks at a
\* time, its ingestion runs inline or from the queue and may fail at any
\* statement, and the owner deletes the document over the API or the MCP
\* tool at any moment, also while the ingestion runs
NextDelete ==
    \E t \in Tasks :
        \/ \E f \in PipelineFiles :
              Quiet /\ DOMAIN documents = {} /\ UploadStart(t, "u1", "W1", f) /\ NoChat /\ Fixed
        \/ uploadFile(t) /\ NoChat /\ Fixed
        \/ \E d \in DocIds : QueueDeliver(t, d) /\ NoChat /\ Fixed
        \/ processDocument(t) /\ NoChat /\ Fixed
        \/ \E d \in DOMAIN documents : DeleteStart(t, "u1", d) /\ NoChat /\ Fixed
        \/ \E d \in DOMAIN documents : ToolDeleteStart(t, "u1", "W1", d) /\ NoChat /\ Fixed
        \/ handleDelete(t) /\ NoChat /\ Fixed

SpecDelete == Init /\ [][NextDelete]_vars

\* chunkText by itself: any text of up to MaxWords words, any targetTokens
\* and overlapTokens whose windows advance (overlapWords < wordsPerChunk)
CallChunkText ==
    /\ \E words \in 0..MaxWords, targetTokens \in 2..MaxTokens, overlapTokens \in 0..MaxTokens :
          /\ TokensToWords(overlapTokens) < TokensToWords(targetTokens)
          /\ call' = [fn |-> "chunkText", words |-> words, targetTokens |-> targetTokens,
                      overlapTokens |-> overlapTokens,
                      chunks |-> chunkText(SplitLength(words), targetTokens, overlapTokens)]
    /\ UNCHANGED <<documents, FILES, VECTORS, document_chunks, tags, document_tags,
                   queue, task, resp, ops, nextDoc, nextTag, faults, runs, hasQueue,
                   chat_sessions, chat_messages, workspace_members>>

SpecChunk == Init /\ [][CallChunkText]_vars

\* Roles: u1 owns workspace W1 and u2 is an editor of it; u2 uploads a text,
\* writes tags and titles and deletes, either of them asks for a merge or for
\* a change of u2's role, one request after the other; the ingestion is inline
\* or waits in the queue, and no service fails during upload and ingestion
RoleMembers == (<<"u1", "W1">> :> "owner") @@ (<<"u2", "W1">> :> "editor")

InitRoles == InitData /\ workspace_members = RoleMembers

NextRoles ==
    \E t \in Tasks :
        \/ \E f \in PipelineFiles :
              Quiet /\ DOMAIN documents = {} /\ UploadStart(t, "u2", "W1", f)
                    /\ faults' = faults /\ NoChat /\ Fixed
        \/ uploadFile(t) /\ faults' = faults /\ NoChat /\ Fixed
        \/ processDocument(t) /\ faults' = faults /\ NoChat /\ Fixed
        \/ \E user \in {"u1", "u2"}, role \in {"editor", "viewer"} :
              Quiet /\ handleUpdateMember(t, user, "W1", "u2", role)
        \/ \E name \in TagNames : Quiet /\ TagCreateStart(t, "u2", "W1", name) /\ NoChat /\ Fixed
        \/ tagCreate(t) /\ NoChat /\ Fixed
        \/ \E g \in DOMAIN tags, name \in TagNames :
              Quiet /\ TagUpdateStart(t, "u2", g, name) /\ NoChat /\ Fixed
        \/ tagUpdate(t) /\ NoChat /\ Fixed
        \/ \E g \in DOMAIN tags : Quiet /\ TagDeleteStart(t, "u2", g) /\ NoChat /\ Fixed
        \/ tagDelete(t) /\ NoChat /\ Fixed
        \/ \E user \in {"u1", "u2"}, s \in DOMAIN tags, g \in DOMAIN tags :
              Quiet /\ MergeStart(t, user, s, g) /\ NoChat /\ Fixed
        \/ handleMerge(t) /\ NoChat /\ Fixed
        \/ \E d \in DOMAIN documents : Quiet /\ DocUpdateStart(t, "u2", d) /\ NoChat /\ Fixed
        \/ documentUpdate(t) /\ NoChat /\ Fixed
        \/ \E d \in DOMAIN documents : Quiet /\ DeleteStart(t, "u2", d) /\ NoChat /\ Fixed
        \/ handleDelete(t) /\ NoChat /\ Fixed

SpecRoles == InitRoles /\ [][NextRoles]_vars

-----------------------------------------------------------------------------
(* Steps of a run that the properties speak about *)

\* task t's processDocument ends in this step: by return, or by the exception
\* of the catch block's own UPDATE
RunEnds(t) == task[t].pc \in {"pd_ready", "pd_catch"} /\ task'[t].op = "none"
RunReturns(t) == RunEnds(t) /\ faults' = faults
RunThrows(t) == RunEnds(t) /\ faults' # faults

\* no other invocation is working on task t's document
Alone(t) == \A u \in Tasks \ {t} : Idle(u) \/ task[u].doc # task[t].doc

FirstIds(d, n) == { <<d, j>> : j \in 0..(n - 1) }

-----------------------------------------------------------------------------
(* C1 *)

\* C1: when processDocument returns for a document that exists, and no other
\* run over the same document is in progress, the document's status is ready
\* or error, never processing: a run that took the catch block leaves status
\* error and error_message equal to the message of the exception, a run that
\* did not leaves status ready.
C1_TerminalStatus ==
    [][\A t \in Tasks :
          (RunReturns(t) /\ Alone(t) /\ task[t].doc \in DOMAIN documents')
          => LET row == documents'[task[t].doc] IN
             /\ row.status \in {"ready", "error"}
             /\ task[t].pc = "pd_catch"
                  => /\ row.status = "error"
                     /\ task[t].err # ""
                     /\ row.error_message = task[t].err
             /\ task[t].pc = "pd_ready" => row.status = "ready"]_vars

\* a run whose embedding call threw has returned and left the document in error
C1_Witness ==
    \E d \in DOMAIN documents :
        /\ documents[d].status = "error"
        /\ documents[d].error_message = ErrEmbed
        /\ \A t \in Tasks : Idle(t)

-----------------------------------------------------------------------------
(* C5 *)

\* C5: in the first and only run over a document, when the embedding call
\* fails on chunk k the run leaves exactly the chunk rows 0..k-1 and exactly
\* the vectors 0..k-1 of the document, no tag association, and the document in
\* status error with a non-empty error_message.
C5_EmbeddingFailureAtK ==
    [][\A t \in Tasks :
          (/\ RunReturns(t)
           /\ task[t].pc = "pd_catch"
           /\ task[t].err = ErrEmbed
           /\ runs[task[t].doc] = 1
           /\ task[t].doc \in DOMAIN documents')
          => LET d == task[t].doc
                 k == task[t].i
             IN  /\ k < task[t].n
                 /\ ChunkIdsOf(document_chunks', d) = FirstIds(d, k)
                 /\ ChunkIdsOf(VECTORS', d) = FirstIds(d, k)
                 /\ task[t].ins = 0
                 /\ \A g \in DOMAIN tags' : <<d, g>> \notin document_tags'
                 /\ documents'[d].status = "error"
                 /\ documents'[d].error_message # ""]_vars

\* the embedding call failed on chunk 2 of 3: chunks 0 and 1 are stored
C5_Witness ==
    \E d \in DOMAIN documents :
        /\ runs[d] = 1
        /\ documents[d].status = "error"
        /\ documents[d].error_message = ErrEmbed
        /\ ChunkIdsOf(document_chunks, d) = FirstIds(d, 2)
        /\ ChunkIdsOf(VECTORS, d) = FirstIds(d, 2)
        /\ \A t \in Tasks : Idle(t)

-----------------------------------------------------------------------------
(* C2 *)

\* C2: a run that starts after an earlier run of the same document has ended
\* (in ready or in error), and in which no external service fails, returns
\* with the document ready and with exactly the chunk rows and the vectors
\* 0..n-1 of the document.
C2_RerunIdempotent ==
    [][\A t \in Tasks :
          (/\ RunEnds(t)
           /\ task[t].prior \in {"ready", "error"}
           /\ runs[task[t].doc] = 2
           /\ ~task[t].inj
           /\ task[t].doc \in DOMAIN documents')
          => LET d == task[t].doc IN
             /\ task[t].pc = "pd_ready"
             /\ documents'[d].status = "ready"
             /\ ChunkIdsOf(document_chunks', d) = FirstIds(d, task[t].n)
             /\ ChunkIdsOf(VECTORS', d) = FirstIds(d, task[t].n)]_vars

-----------------------------------------------------------------------------
(* C8 *)

\* C8: the status uploadFile answers after the inline run is the status the
\* run left in the document's row.
C8_InlineStatusIsPersisted ==
    [][\A t \in Tasks :
          (/\ RunEnds(t)
           /\ task[t].op = "upload"
           /\ task[t].doc \in DOMAIN documents')
          => /\ resp'.op = "upload"
             /\ resp'.id = task[t].doc
             /\ resp'.status \in {"ready", "error"}
             /\ resp'.status = documents'[task[t].doc].status]_vars

-----------------------------------------------------------------------------
(* C10 *)

\* C10: when the tagging inference call fails, or the model's answer is not
\* parseable or not an array, the run goes on to the final status update with
\* an empty tag list and with no exception raised.
C10_TaggingNeverFatal ==
    [][\A t \in Tasks :
          (/\ task[t].pc = "pd_infer"
           /\ task'[t].pc # "pd_findtag")
          => /\ task'[t].pc = "pd_ready"
             /\ task'[t].tagq = <<>>
             /\ task'[t].err = task[t].err]_vars

-----------------------------------------------------------------------------
(* C6, C7 *)

\* the documents of workspace ws whose content is bytes b
SameContent(ws, b) ==
    { d \in DOMAIN documents :
        documents[d].workspace_id = ws /\ documents[d].content_hash = sha256(b) }

TypeOfBytes(b) == (CHOOSE f \in UploadFiles : f.bytes = b).type

\* uploadFile answers at once (a duplicate, a refused type, a failed query)
UploadAnswersAtOnce == ops' = ops + 1 /\ task' = task /\ resp'.op = "upload"

\* C6: an upload of bytes that a document of the same workspace already holds
\* is answered with status duplicate and the id of such a document, and it
\* creates no row, no blob and no queue message; an upload of bytes that no
\* document of the same workspace holds, whatever other workspaces hold, is
\* not answered as a duplicate: it gets a fresh id, and the row it inserts
\* carries its own workspace and the hash of its bytes, and the id it answers
\* is the id of that row.
C6_DuplicateUpload ==
    [][/\ (UploadAnswersAtOnce /\ faults' = faults)
            => LET same == SameContent(resp'.ws, resp'.bytes) IN
               /\ same # {}
                    => /\ resp'.status = "duplicate"
                       /\ resp'.id \in same
                       /\ UNCHANGED <<documents, FILES, queue, nextDoc>>
               /\ same = {}
                    => /\ resp'.status = "Upload failed"
                       /\ TypeOfBytes(resp'.bytes) \notin AllowedTypes
       /\ \A t \in Tasks :
            /\ (Idle(t) /\ task'[t].op = "upload")
                 => /\ SameContent(task'[t].ws, task'[t].file.bytes) = {}
                    /\ task'[t].doc \notin DOMAIN documents
                    /\ \A u \in Tasks \ {t} : task[u].doc # task'[t].doc
            /\ (task[t].pc = "up_insert" /\ task'[t].pc = "up_dispatch")
                 => /\ DOMAIN documents' = DOMAIN documents \cup {task[t].doc}
                    /\ task[t].doc \notin DOMAIN documents
                    /\ documents'[task[t].doc].workspace_id = task[t].ws
                    /\ documents'[task[t].doc].content_hash = sha256(task[t].file.bytes)
            /\ (task[t].pc = "up_dispatch" /\ task'[t].op = "none" /\ faults' = faults)
                 => /\ resp'.id = task[t].doc
                    /\ resp'.id \in SameContent(resp'.ws, resp'.bytes)]_vars

\* the same bytes are stored once in W1 and once in W2, and a further upload
\* of them to W1 has just been answered as a duplicate of W1's document
C6_Witness ==
    \E d1 \in DOMAIN documents, d2 \in DOMAIN documents :
        /\ documents[d1].workspace_id = "W1"
        /\ documents[d2].workspace_id = "W2"
        /\ documents[d1].content_hash = sha256("b1")
        /\ documents[d2].content_hash = sha256("b1")
        /\ resp = [op |-> "upload", status |-> "duplicate", id |-> d1,
                   ws |-> "W1", bytes |-> "b1"]
        /\ Cardinality(DOMAIN documents) = 2
        /\ Cardinality(DOMAIN queue) = 2

\* C7: no two documents of one workspace have the same content_hash.
C7_OneDocumentPerHash ==
    \A d1 \in DOMAIN documents, d2 \in DOMAIN documents :
        (/\ d1 # d2
         /\ documents[d1].workspace_id = documents[d2].workspace_id)
        => documents[d1].content_hash # documents[d2].content_hash

-----------------------------------------------------------------------------
(* C9 *)

\* what a failure of storage (D1, R2, Vectorize) or of the embedding model raises
StorageOrEmbeddingErrors == {ErrD1, ErrR2, ErrVector, ErrEmbed}

\* C9: extractText returns a text for a blob of any mime type, so a run that
\* finds the blob goes on to store the text; and the first run over a
\* document whose blob exists, in which neither storage nor the embedding
\* call fails, returns with the document ready.
C9_ExtractionNeverFatal ==
    [][\A t \in Tasks :
          /\ (task[t].pc = "pd_get" /\ task'[t] # task[t] /\ faults' = faults
              /\ FileKey(task[t].doc) \in DOMAIN FILES)
               => /\ task'[t].pc = "pd_put"
                  /\ task'[t].text # NoText
          /\ (/\ RunReturns(t)
              /\ runs[task[t].doc] = 1
              /\ task[t].doc \in DOMAIN documents'
              /\ FileKey(task[t].doc) \in DOMAIN FILES
              /\ task[t].err \notin StorageOrEmbeddingErrors)
               => documents'[task[t].doc].status = "ready"]_vars

-----------------------------------------------------------------------------
(* C3, C4 *)

\* C3: the tag step of the pipeline looks for the (document, tag) row before
\* it inserts: when the row exists the step raises nothing, leaves
\* document_tags and every usage_count as they are, and goes on.
C3_TagStepChecksExistence ==
    [][\A t \in Tasks :
          (/\ task[t].pc = "pd_doctag"
           /\ task'[t] # task[t]
           /\ faults' = faults
           /\ <<task[t].doc, task[t].tagId>> \in document_tags)
          => /\ task'[t].pc \in {"pd_findtag", "pd_ready"}
             /\ UNCHANGED <<document_tags, tags>>]_vars

\* C4: when no operation is in progress and no statement of any operation
\* has failed, every tag's usage_count is the number of document_tags rows
\* that reference the tag.
C4_UsageCountIsRowCount ==
    (faults = 0 /\ \A t \in Tasks : Idle(t))
    => \A g \in DOMAIN tags :
          tags[g].usage_count = Cardinality(RowsOfTag(document_tags, g))

-----------------------------------------------------------------------------
(* Search results *)

\* the documents of the vector matches a search answer was computed from
Candidates(r) == { r.matches[j].id[1] : j \in DOMAIN r.matches }

\* the ids of a list of answered documents, in order
IdsOf(docs) == [k \in DOMAIN docs |-> docs[k].id]

\* C11: a combined search with a text query and a tag filter returns only
\* documents that are in the semantic candidate set of the query (a chunk of
\* theirs is among the vector matches) and that carry one of the requested
\* tags, also when the vector query matched nothing.
C11_CombinedWithinCandidatesAndTags ==
    (/\ resp.op = "combined"
     /\ resp.status = "ok"
     /\ resp.req.query # ""
     /\ resp.req.tags # {})
    => \A k \in DOMAIN resp.documents :
          /\ resp.documents[k].id \in Candidates(resp)
          /\ \E p \in RowsOfDoc(document_tags, resp.documents[k].id) :
                p[2] \in DOMAIN tags /\ tags[p[2]].name \in resp.req.tags

\* C12: in the answer of a combined search the scored documents are in
\* descending order of score, the unscored ones in descending order of
\* creation date, and no unscored document precedes a scored one.
C12_CombinedOrdering ==
    (resp.op = "combined" /\ resp.status = "ok")
    => \A i, j \in DOMAIN resp.documents :
          i < j =>
            LET a == resp.documents[i]
                b == resp.documents[j]
            IN  /\ (a.score # <<>> /\ b.score # <<>>) => a.score[1] >= b.score[1]
                /\ (a.score = <<>> /\ b.score = <<>>) => CreatedAt(a.id) >= CreatedAt(b.id)
                /\ ~(a.score = <<>> /\ b.score # <<>>)

\* a combined search answered two documents of different scores, the one
\* created first scoring higher
C12_Witness ==
    /\ resp.op = "combined"
    /\ resp.status = "ok"
    /\ Len(resp.documents) = 2
    /\ resp.documents[1].score # <<>>
    /\ resp.documents[2].score # <<>>
    /\ resp.documents[1].score[1] > resp.documents[2].score[1]
    /\ CreatedAt(resp.documents[1].id) < CreatedAt(resp.documents[2].id)

\* C13: a faceted or combined search over N matching documents with page
\* size P and an offset answers has_more = (N > offset + P) and the
\* documents at positions offset .. offset + P - 1 of the ordered result.
C13_PaginationConsistent ==
    [][\A t \in Tasks :
          (/\ task[t].pc \in {"faceted_count", "combined_sort"}
           /\ task'[t].op = "none"
           /\ resp'.status = "ok")
          => LET req == task[t].req
                 P == Limit(req)
                 ordered ==
                     IF task[t].op = "faceted"
                     THEN CHOOSE q \in Orderings(Matching(task[t].ids, req.tags)) :
                              \A i, j \in DOMAIN q :
                                  i < j => CreatedAt(q[i]) >= CreatedAt(q[j])
                     ELSE IdsOf(RankedRows(task[t].rows, task[t].matches))
                 N == Len(ordered)
             IN  /\ resp'.has_more = (N > req.offset + P)
                 /\ IdsOf(resp'.documents)
                      = SubSeq(ordered, req.offset + 1, Min(req.offset + P, N))]_vars

-----------------------------------------------------------------------------
(* Chat turns *)

\* the steps of handleSendMessage after the INSERT of the user message, and
\* the steps of the stream
AfterUserInsert ==
    {"rc_query", "rc_loop", "sm_history", "sm_generate", "sm_save", "sm_touch",
     "sr_run", "sr_read", "sr_save", "sr_touch"}
InStream(t) == task[t].op = "chat" /\ task[t].pc \in {"sr_run", "sr_read", "sr_save", "sr_touch"}
Closes(t) == InStream(t) /\ task'[t].op = "none"

UserMessageOf(sess, umsg, message) ==
    \E k \in DOMAIN chat_messages :
        /\ chat_messages[k].id = umsg
        /\ chat_messages[k].role = "user"
        /\ chat_messages[k].session_id = sess
        /\ chat_messages[k].content = message
AssistantRows(sess) ==
    { k \in DOMAIN chat_messages :
        chat_messages[k].role = "assistant" /\ chat_messages[k].session_id = sess }
TypesOf(events) == [k \in DOMAIN events |-> events[k].type]
Last(s) == s[Len(s)]
Front(s) == SubSeq(s, 1, Len(s) - 1)
\* zero or more content events, then one sources event
ContentThenSources(events) ==
    /\ events # <<>>
    /\ Last(events).type = "sources"
    /\ \A k \in 1..(Len(events) - 1) : events[k].type = "content"

\* C14: in a chat turn with a non-empty message on a session the caller can
\* access, the row of the user message is in chat_messages when the retrieval
\* of context starts and in every later step of the turn, generation and
\* stream included, and it is still there when the turn has answered, whether
\* the turn ended well or in a failure of the embedding, the vector query, a
\* statement, the generation or the stream.
C14_UserMessagePersistedFirst ==
    /\ \A t \in Tasks :
          (task[t].op = "chat" /\ task[t].pc \in AfterUserInsert)
              => UserMessageOf(task[t].sess, task[t].umsg, task[t].req.message)
    /\ (resp.op = "chat" /\ resp.umsg # 0)
          => UserMessageOf(resp.sess, resp.umsg, resp.req.message)

\* C14 witness: a turn failed after generation started, and its user message
\* is stored.
C14_Witness ==
    /\ resp.op = "chat"
    /\ resp.gen
    /\ resp.status = "Failed to process message"
    /\ UserMessageOf(resp.sess, resp.umsg, resp.req.message)

\* C15: the sources retrieveContext hands back hold no two entries of one
\* document, at most five documents, and for each entry the title of its
\* document.
C15_SourcesDeduplicated ==
    \A t \in Tasks :
        (task[t].op = "chat" /\ task[t].pc = "sm_history") =>
            LET s == task[t].rows
            IN  /\ \A i, j \in DOMAIN s : i # j => s[i].document_id # s[j].document_id
                /\ Cardinality({ s[k].document_id : k \in DOMAIN s }) <= 5
                /\ \A k \in DOMAIN s : s[k].document_title = TitleOf(s[k].document_id)

\* the events of a stream that ended well: content events, one sources event,
\* the done event with the id of an assistant message of the session that
\* was stored before the step
EndsWithDone(t) ==
    /\ Len(resp'.events) >= 2
    /\ ContentThenSources(Front(resp'.events))
    /\ Last(resp'.events).type = "done"
    /\ \E k \in AssistantRows(task[t].sess) :
          Last(resp'.events).arg = <<chat_messages[k].id>>

C17_AssistantPersistedOnce ==
    /\ \A t \in Tasks :
          (task[t].op = "chat" /\ task[t].pc \in {"sm_generate", "sr_run", "sr_read"})
              => AssistantRows(task[t].sess) = {}
    /\ (resp.op = "chat" /\ resp.gen) =>
          /\ Cardinality(AssistantRows(resp.sess)) = 1
          /\ \A k \in AssistantRows(resp.sess) :
                /\ chat_messages[k].content = resp.content
                /\ chat_messages[k].sources = resp.sources

\* C18: a stream that failed while the provider's stream was read, after a
\* content event, has the content emitted so far stored as the assistant
\* message of the turn.
C18_PartialContentPersisted ==
    (/\ resp.op = "chat"
     /\ resp.status = "closed"
     /\ resp.content # <<>>
     /\ \A k \in DOMAIN resp.events : resp.events[k].type # "sources")
        => \E k \in AssistantRows(resp.sess) : chat_messages[k].content = resp.content

-----------------------------------------------------------------------------
(* Delete cascade *)

\* the step in which a delete of document d answers that the document is
\* deleted
DeleteCompletes(t, d) ==
    /\ At(t, "dd_doc")
    /\ task[t].doc = d
    /\ task'[t].op = "none"
    /\ resp'.status = "Document deleted"

\* C20: when a delete of a document completes, over the API or the MCP tool,
\* no chunk row, no document_tags row and no vector of the document is left,
\* whether the document was pending, ready or in error after an ingestion
\* that stopped half way, and whether or not an ingestion run of the document
\* is in progress.
C20_DeleteCascades ==
    [][\A t \in Tasks, d \in DocIds :
          DeleteCompletes(t, d) =>
              /\ ChunkIdsOf(document_chunks', d) = {}
              /\ RowsOfDoc(document_tags', d) = {}
              /\ \A v \in VECTORS' : v[1] # d]_vars

-----------------------------------------------------------------------------
(* Chunk coverage *)

\* the chunks that hold word k of the last call's text
ChunksOfWord(k) ==
    { i \in DOMAIN call.chunks : call.chunks[i].start <= k /\ k < call.chunks[i].end }
\* word k lies in the overlap of two adjacent chunks
OverlapWord(k) ==
    \E i \in 1..(Len(call.chunks) - 1) :
        call.chunks[i + 1].start <= k /\ k < call.chunks[i].end
\* every word is in a chunk, chunk i starts at i * (wordsPerChunk -
\* overlapWords) and spans a window, and no word lies between two chunks
CoveredInOrder ==
    LET len == SplitLength(call.words)
        wordsPerChunk == TokensToWords(call.targetTokens)
        overlapWords == TokensToWords(call.overlapTokens)
    IN  /\ \A k \in 0..(len - 1) : ChunksOfWord(k) # {}
        /\ \A i \in DOMAIN call.chunks :
              /\ call.chunks[i].start = (i - 1) * (wordsPerChunk - overlapWords)
              /\ call.chunks[i].end = Min(call.chunks[i].start + wordsPerChunk, len)
        /\ \A i \in 1..(Len(call.chunks) - 1) :
              call.chunks[i + 1].start <= call.chunks[i].end
\* an overlap word is in exactly two chunks, adjacent ones; every other word
\* is in exactly one
OverlapInTwo ==
    \A k \in 0..(SplitLength(call.words) - 1) :
        IF OverlapWord(k)
        THEN \E i \in 1..(Len(call.chunks) - 1) : ChunksOfWord(k) = {i, i + 1}
        ELSE Cardinality(ChunksOfWord(k)) = 1

\* C21 as stated: for every text and every parameters with 0 <= overlapWords
\* < wordsPerChunk the chunks cover every word in order with no gap, chunk i
\* starts at i * (wordsPerChunk - overlapWords), every overlap word is in
\* exactly two adjacent chunks and every other word in exactly one.
C21_CoverageAnyOverlap ==
    call.fn = "chunkText" => (CoveredInOrder /\ OverlapInTwo)

\* C21: for every text and every parameters with 0 <= overlapWords <
\* wordsPerChunk the chunks cover every word in order with no gap and chunk i
\* starts at i * (wordsPerChunk - overlapWords); when the overlap is at most
\* half a window (2 * overlapWords <= wordsPerChunk), every overlap word is
\* in exactly two adjacent chunks and every other word in exactly one.
C21_CoverageHalfOverlap ==
    call.fn = "chunkText" =>
        /\ CoveredInOrder
        /\ (2 * TokensToWords(call.overlapTokens) <= TokensToWords(call.targetTokens))
              => OverlapInTwo

\* C21 witness: a text cut into three chunks or more that overlap, the
\* overlap at most half a window.
C21_Witness ==
    /\ call.fn = "chunkText"
    /\ Len(call.chunks) >= 3
    /\ TokensToWords(call.overlapTokens) >= 1
    /\ 2 * TokensToWords(call.overlapTokens) <= TokensToWords(call.targetTokens)

\* C22: chunkText returns no chunk for the empty text and one chunk for a
\* text of one word.
C22_EmptyAndSingleWord ==
    call.fn = "chunkText" =>
        /\ (call.words = 0 => Len(call.chunks) = 0)
        /\ (call.words = 1 => Len(call.chunks) = 1)

-----------------------------------------------------------------------------
(* Role checks *)

\* the requests that create, update or delete a tag or a document
WritingOps ==
    {"upload", "tagCreate", "tagUpdate", "tagDelete", "merge", "documentUpdate", "delete"}

\* the step in which a request of such a kind passes the handler's checks and
\* goes on to its statements
Admitted(t) == Idle(t) /\ task'[t].op \in WritingOps

\* C23: a request that creates, updates or deletes a tag or a document of a
\* workspace goes on to its statements only when the role of the caller in
\* the workspace, in the rows of workspace_members at that moment, is owner
\* or editor (never viewer), and a merge only when it is owner.
C23_ViewerNeverWrites ==
    [][\A t \in Tasks :
          Admitted(t) =>
              /\ <<task'[t].user, task'[t].ws>> \in Writers
              /\ task'[t].op = "merge" => <<task'[t].user, task'[t].ws>> \in Owners]_vars

-----------------------------------------------------------------------------
(* Status transitions *)

\* C24: the status of a document changes only from pending to processing,
\* from processing to ready and from processing to error, in every run,
\* also when the pipeline runs again over the document, when the queue
\* delivers its message again and when two runs over it overlap.
C24_StatusTransitions ==
    [][\A d \in DOMAIN documents \cap DOMAIN documents' :
          documents[d].status # documents'[d].status =>
              <<documents[d].status, documents'[d].status>> \in
                  { <<"pending", "processing">>, <<"processing", "ready">>,
                    <<"processing", "error">> }]_vars

-----------------------------------------------------------------------------
(* Chunk rows and vectors *)

\* no processDocument run and no delete of document d is between its steps
AtRest(d) == \A t \in Tasks : Idle(t) \/ task[t].doc # d

\* C25: whenever no ingestion and no delete of a document is between its
\* steps, the ids of the document's vectors are the ids of its chunk rows,
\* and they are <<document, 0>> .. <<document, n-1>> for the number n of them,
\* after runs that ended well, after runs that failed and after retries.
C25_VectorsMatchChunks ==
    \A d \in DOMAIN documents :
        AtRest(d) =>
            /\ { v \in VECTORS : v[1] = d } = ChunkIdsOf(document_chunks, d)
            /\ ChunkIdsOf(document_chunks, d) =
                  { <<d, i>> : i \in 0..(Cardinality(ChunkIdsOf(document_chunks, d)) - 1) }

-----------------------------------------------------------------------------
(* Conversation history *)

\* the ids of the rows of a session persisted before the row umsg
PersistedBefore(sess, umsg) ==
    LET rows == SelectSeq(chat_messages,
                          LAMBDA m : m.session_id = sess /\ m.id < umsg)
    IN  [k \in 1..Len(rows) |-> rows[k].id]

\* C26: the history entries sent to the model for a chat turn are the most
\* recent min(10, m) of the m messages persisted in the session before the
\* turn, oldest first, and the user message the turn just added is never one
\* of them, also when other requests add messages to the session meanwhile
C26_HistoryBeforeTurn ==
    \A t \in Tasks :
        (task[t].op = "chat" /\ task[t].gen) =>
            LET before == PersistedBefore(task[t].sess, task[t].umsg)
                m == Len(before)
                sent == [k \in DOMAIN task[t].history |-> task[t].history[k].id]
            IN  /\ sent = SubSeq(before, m - Min(10, m) + 1, m)
                /\ \A k \in DOMAIN sent : sent[k] # task[t].umsg

-----------------------------------------------------------------------------
(* The consumer's settlement *)

\* C27: when the consumer's processDocument ends for a message, the message
\* is acked if processDocument returned and handed back for a retry if and
\* only if it threw, and the message of an ingestion that failed (a run that
\* took the catch block) is handed back to be delivered and processed again
C27_FailedIngestionRetried ==
    [][\A t \in Tasks :
          (task[t].op = "queue" /\ RunEnds(t))
          => LET state == queue'[task[t].doc].state IN
             /\ RunReturns(t) => state = "acked"
             /\ state = "queued" <=> RunThrows(t)
             /\ task[t].pc = "pd_catch" => state = "queued"]_vars

-----------------------------------------------------------------------------
(* Search and chat over documents that are not ready *)

\* the documents an answered search lists, the documents of the sources of
\* an answered chat turn
Returned ==
    IF resp.op \in {"faceted", "combined", "semantic"}
    THEN { resp.documents[k].id : k \in DOMAIN resp.documents }
    ELSE IF resp.op = "chat"
    THEN { resp.sources[k].document_id : k \in DOMAIN resp.sources }
    ELSE {}

\* C28: a document whose status is not ready is never returned by the
\* faceted, the semantic or the combined search and is never among the
\* sources of a chat turn
C28_OnlyReadyReturned ==
    \A d \in Returned : Exists(d) => documents[d].status = "ready"

-----------------------------------------------------------------------------
(* Ready documents *)

\* C29: in every state a document with status ready has the text key of its
\* id, a blob stored under that key, and no error_message, a document that
\* ended in error before and became ready in a later run included
C29_ReadyIsClean ==
    \A d \in DOMAIN documents :
        documents[d].status = "ready" =>
            /\ documents[d].text_key = TextKeyOf(d)
            /\ TextKeyOf(d) \in DOMAIN FILES
            /\ documents[d].error_message = ""

-----------------------------------------------------------------------------
(* Uploads that answer an error *)

\* C30: when an upload request answers with an error response, nothing that
\* the request created remains in the store: no document row, no blob and
\* no queue message of the document id the request drew
C30_FailedUploadLeavesNothing ==
    [][\A t \in Tasks :
          (/\ task[t].op = "upload"
           /\ task'[t].op = "none"
           /\ resp'.status = "Upload failed")
          => LET d == task[t].doc IN
             /\ d \notin DOMAIN documents'
             /\ FileKey(d) \notin DOMAIN FILES'
             /\ d \notin DOMAIN queue']_vars

====
